---- MODULE Spec2Model ----
(***************************************************************************)
(* Model of the indicator plugin engine of Market_Data:                    *)
(*   plugins/base_indicator.py   ParameterDefinition, BaseIndicator        *)
(*   src/plugin_manager.py       PluginManager                             *)
(*   src/chart_engine.py         InteractiveChartEngine (composition)      *)
(*   plugins/indicators/*.py     the built-in indicator classes            *)
(*                                                                         *)
(* Python values are records [t, v]: t is the Python type name and v an    *)
(* integer.  An int or a bool carries its integer value (True is 1), a     *)
(* float carries its value in tenths (FloatV(5) is 0.5), a str carries the *)
(* index of the string.  Num gives the numeric value in tenths, which is   *)
(* how Python compares an int with a float.  NaN is the float that is not  *)
(* a number: every ordering comparison with it is False.                   *)
(***************************************************************************)
EXTENDS Integers, Sequences, FiniteSets, TLC

\* ------------------------------------------------------------------------
\* Bounds of the model
\* ------------------------------------------------------------------------
MaxBatch == 2

MaxIndicators == 2

\* rows of the longest frame of the frames enumerated for calculate
MaxRows == 3

\* daily rows stored for a ticker after the database was first read
MaxNewRows == 1

\* rows of the longest Wave Trend series the signal columns are computed for
MaxWave == 5

\* ------------------------------------------------------------------------
\* Python values
\* ------------------------------------------------------------------------
IntV(n) == [t |-> "int", v |-> n]

FloatV(tenths) == [t |-> "float", v |-> tenths]

BoolV(b) == [t |-> "bool", v |-> IF b THEN 1 ELSE 0]

StrV(i) == [t |-> "str", v |-> i]

NoneV == [t |-> "NoneType", v |-> 0]

\* float('nan')
NaN == [t |-> "float", v |-> 0, nan |-> TRUE]

IsNaN(x) == "nan" \in DOMAIN x

\* numeric value in tenths of an int, bool or float
Num(x) == IF x.t = "float" THEN x.v ELSE x.v * 10

\* float(value)
ToFloat(x) == IF IsNaN(x) THEN x ELSE [t |-> "float", v |-> Num(x)]

\* Python a < b and a > b on numbers
Lt(a, b) == ~IsNaN(a) /\ ~IsNaN(b) /\ Num(a) < Num(b)

Gt(a, b) == ~IsNaN(a) /\ ~IsNaN(b) /\ Num(a) > Num(b)

\* isinstance(value, int): bool is a subclass of int
IsInstanceInt(x) == x.t \in {"int", "bool"}

\* isinstance(value, (int, float))
IsInstanceIntOrFloat(x) == x.t \in {"int", "bool", "float"}

\* Body(x), with x evaluated once
With(x, Body(_)) == CHOOSE y \in {Body(v) : v \in {x}} : TRUE

\* Python ==, as used by "value not in self.choices"
PyEq(a, b) ==
    IF IsNaN(a) \/ IsNaN(b) THEN FALSE
    ELSE IF IsInstanceIntOrFloat(a) /\ IsInstanceIntOrFloat(b) THEN Num(a) = Num(b)
    ELSE a = b

\* ------------------------------------------------------------------------
\* ParameterDefinition (plugins/base_indicator.py)
\* ------------------------------------------------------------------------
\* the dataclass; the fields step and description are read by no operation
\* modelled here and are left out
ParameterDefinition(name, type, default, min_value, max_value, choices) ==
    [name |-> name, type |-> type, default |-> default,
     min_value |-> min_value, max_value |-> max_value, choices |-> choices]

\* the (is_valid, error_message) pair validate returns
Valid == [ok |-> TRUE, m |-> "", a |-> NoneV, b |-> NoneV]

Invalid(m, a, b) == [ok |-> FALSE, m |-> m, a |-> a, b |-> b]

\* the range checks shared by the int and the float branch
validate_range(pd, value) ==
    IF pd.min_value # NoneV /\ Lt(value, pd.min_value)
        THEN Invalid("is below minimum", value, pd.min_value)
    ELSE IF pd.max_value # NoneV /\ Gt(value, pd.max_value)
        THEN Invalid("is above maximum", value, pd.max_value)
    ELSE Valid

\* ParameterDefinition.validate
validate(pd, value) ==
    IF pd.type = "int" THEN
        IF ~IsInstanceInt(value) THEN Invalid("Expected int, got", value, NoneV)
        ELSE validate_range(pd, value)
    ELSE IF pd.type = "float" THEN
        IF ~IsInstanceIntOrFloat(value) THEN Invalid("Expected float, got", value, NoneV)
        ELSE validate_range(pd, ToFloat(value))
    ELSE IF pd.type = "bool" THEN
        IF value.t # "bool" THEN Invalid("Expected bool, got", value, NoneV)
        ELSE Valid
    ELSE IF pd.type = "str" THEN
        IF value.t # "str" THEN Invalid("Expected str, got", value, NoneV)
        ELSE Valid
    ELSE IF pd.type = "choice" THEN
        IF pd.choices # {} /\ ~(\E c \in pd.choices : PyEq(value, c))
            THEN Invalid("not in choices", value, NoneV)
        ELSE Valid
    ELSE Valid

\* ------------------------------------------------------------------------
\* Indicator classes: the built-in plugins, the test suite's TestIndicator,
\* and candidate classes a plugin file may hold
\* ------------------------------------------------------------------------
\* a class: the attributes its body defines (the others are inherited from
\* BaseIndicator), whether it implements the three abstract methods, and
\* what its _define_parameters and get_plot_configs return
IndicatorClass(attrs, implemented, paramsIsDict, plotsIsList, plotsArePlotConfigs) ==
    [attrs |-> attrs, implemented |-> implemented, paramsIsDict |-> paramsIsDict,
     plotsIsList |-> plotsIsList, plotsArePlotConfigs |-> plotsArePlotConfigs]

\* a class that honours the contract
WellFormed(attrs) == IndicatorClass(attrs, TRUE, TRUE, TRUE, TRUE)

\* BaseIndicator's own class attributes, inherited by every subclass
BaseAttrs ==
    [name |-> "Base Indicator", version |-> "0.0.0", description |-> "",
     author |-> "Unknown"]

BuiltinClasses ==
    {"SimpleMovingAverage", "ExponentialMovingAverage", "RelativeStrengthIndex",
     "BollingerBands", "MarketCipherA", "MarketCipherB"}

\* classes a user's plugin file may define: two contract-abiding ones with
\* the same display name, one that plots a line on the price axis and then
\* one on the secondary axis, and one class per way of breaking the contract
CandidateClasses ==
    {"TestIndicator", "TestIndicatorV2", "PriceWithOscillator",
     "NoName", "NoVersion", "NoDescription", "NoAuthor",
     "EmptyName", "EmptyVersion", "EmptyDescription", "EmptyAuthor",
     "Abstract", "ParamsNotDict", "PlotsNotList", "PlotsNotConfigs"}

ClassIds == BuiltinClasses \cup CandidateClasses

Class(c) ==
    CASE c = "SimpleMovingAverage" ->
           WellFormed([name |-> "Simple Moving Average", version |-> "1.0.0",
                       description |-> "Calculate the simple moving average of closing prices",
                       author |-> "Market Data Team"])
      [] c = "ExponentialMovingAverage" ->
           WellFormed([name |-> "Exponential Moving Average", version |-> "1.0.0",
                       description |-> "Calculate the exponential moving average of closing prices",
                       author |-> "Market Data Team"])
      [] c = "RelativeStrengthIndex" ->
           WellFormed([name |-> "Relative Strength Index", version |-> "1.0.0",
                       description |-> "Calculate the Relative Strength Index (RSI) momentum indicator",
                       author |-> "Market Data Team"])
      [] c = "BollingerBands" ->
           WellFormed([name |-> "Bollinger Bands", version |-> "1.0.0",
                       description |-> "Calculate Bollinger Bands volatility indicator",
                       author |-> "Market Data Team"])
      [] c = "MarketCipherA" ->
           WellFormed([name |-> "Market Cipher A", version |-> "1.0.0",
                       description |-> "Wave Trend oscillator with momentum crossover signals",
                       author |-> "Market Data Team"])
      [] c = "MarketCipherB" ->
           WellFormed([name |-> "Market Cipher B", version |-> "1.0.0",
                       description |-> "Multi-indicator confluence with Money Flow and momentum signals",
                       author |-> "Market Data Team"])
      [] c = "TestIndicator" ->
           WellFormed([name |-> "Test Indicator", version |-> "1.0.0",
                       description |-> "A test indicator", author |-> "Test Author"])
      [] c = "TestIndicatorV2" ->
           WellFormed([name |-> "Test Indicator", version |-> "2.0.0",
                       description |-> "A test indicator", author |-> "Test Author"])
      [] c = "PriceWithOscillator" ->
           WellFormed([name |-> "Price With Oscillator", version |-> "1.0.0",
                       description |-> "A price line and its oscillator",
                       author |-> "Test Author"])
      [] c = "NoName" ->
           WellFormed([version |-> "1.0.0", description |-> "d", author |-> "Test"])
      [] c = "NoVersion" ->
           WellFormed([name |-> "No Version", description |-> "d", author |-> "Test"])
      [] c = "NoDescription" ->
           WellFormed([name |-> "No Description", version |-> "1.0.0", author |-> "Test"])
      [] c = "NoAuthor" ->
           WellFormed([name |-> "No Author", version |-> "1.0.0", description |-> "d"])
      [] c = "EmptyName" ->
           WellFormed([name |-> "", version |-> "1.0.0", description |-> "d",
                       author |-> "Test"])
      [] c = "EmptyVersion" ->
           WellFormed([name |-> "Empty Version", version |-> "", description |-> "d",
                       author |-> "Test"])
      [] c = "EmptyDescription" ->
           WellFormed([name |-> "Empty Description", version |-> "1.0.0",
                       description |-> "", author |-> "Test"])
      [] c = "EmptyAuthor" ->
           WellFormed([name |-> "Empty Author", version |-> "1.0.0",
                       description |-> "d", author |-> ""])
      [] c = "Abstract" ->
           IndicatorClass([name |-> "Abstract", version |-> "1.0.0", description |-> "d",
                           author |-> "Test"], FALSE, TRUE, TRUE, TRUE)
      [] c = "ParamsNotDict" ->
           IndicatorClass([name |-> "Params Not Dict", version |-> "1.0.0",
                           description |-> "d", author |-> "Test"], TRUE, FALSE, TRUE, TRUE)
      [] c = "PlotsNotList" ->
           IndicatorClass([name |-> "Plots Not List", version |-> "1.0.0",
                           description |-> "d", author |-> "Test"], TRUE, TRUE, FALSE, TRUE)
      [] c = "PlotsNotConfigs" ->
           IndicatorClass([name |-> "Plots Not Configs", version |-> "1.0.0",
                           description |-> "d", author |-> "Test"], TRUE, TRUE, TRUE, FALSE)

\* hasattr(plugin_class, attr): the class body or BaseIndicator defines it
hasattr(c, attr) == attr \in DOMAIN Class(c).attrs \cup DOMAIN BaseAttrs

\* getattr(plugin_class, attr): the class's own attribute, else the inherited
getattr(c, attr) ==
    IF attr \in DOMAIN Class(c).attrs THEN Class(c).attrs[attr] ELSE BaseAttrs[attr]

\* an int parameter with bounds, a float parameter with bounds
IntParam(name, default, lo, hi) ==
    ParameterDefinition(name, "int", IntV(default), IntV(lo), IntV(hi), {})

FloatParam(name, default, lo, hi) ==
    ParameterDefinition(name, "float", FloatV(default), FloatV(lo), FloatV(hi), {})

\* _define_parameters of each class: the dict as the sequence of its values,
\* in insertion order
_define_parameters(c) ==
    CASE c = "SimpleMovingAverage" ->
           << IntParam("period", 20, 2, 500) >>
      [] c = "ExponentialMovingAverage" ->
           << IntParam("period", 12, 2, 500) >>
      [] c = "RelativeStrengthIndex" ->
           << IntParam("period", 14, 2, 100),
              IntParam("overbought", 70, 50, 100),
              IntParam("oversold", 30, 0, 50) >>
      [] c = "BollingerBands" ->
           << IntParam("period", 20, 2, 500),
              FloatParam("multiplier", 20, 5, 50) >>
      [] c = "MarketCipherA" ->
           << IntParam("channel_length", 9, 5, 20),
              IntParam("average_length", 12, 5, 30),
              IntParam("overbought", 60, 50, 80),
              IntParam("oversold", -60, -80, -50) >>
      [] c = "MarketCipherB" ->
           << IntParam("channel_length", 9, 5, 20),
              IntParam("average_length", 12, 5, 30),
              IntParam("mfi_length", 60, 20, 100),
              IntParam("overbought", 53, 40, 70),
              IntParam("oversold", -53, -70, -40) >>
      [] c \in {"TestIndicator", "TestIndicatorV2"} ->
           << IntParam("period", 20, 2, 500),
              FloatParam("threshold", 500, 0, 1000) >>
      [] OTHER -> << >>

\* ------------------------------------------------------------------------
\* BaseIndicator (plugins/base_indicator.py)
\* ------------------------------------------------------------------------
\* _validate_class_attributes: TRUE when it raises no ValueError
_validate_class_attributes(c) ==
    /\ getattr(c, "name") # ""
    /\ getattr(c, "name") # "Base Indicator"
    /\ getattr(c, "version") # ""
    /\ getattr(c, "author") # ""

\* plugin_class(): TRUE when the constructor returns an instance.  A class
\* that leaves an abstract method unimplemented raises TypeError, __init__
\* raises ValueError from _validate_class_attributes
CanInstantiate(c) == Class(c).implemented /\ _validate_class_attributes(c)

\* the instance plugin_class() returns: its class and its own parameters
NewInstance(c) == [cls |-> c, parameters |-> _define_parameters(c)]

\* the names of a parameters dict, and the definition stored under a name
ParamNames(parameters) == {parameters[i].name : i \in DOMAIN parameters}

ParamIndex(parameters, name) ==
    CHOOSE i \in DOMAIN parameters : parameters[i].name = name

\* a batch (the dict params) is a sequence of [name, value] entries in
\* insertion order, with distinct names
BatchNames(params) == {params[i].name : i \in DOMAIN params}

BatchValue(params, name) ==
    params[CHOOSE i \in DOMAIN params : params[i].name = name].value

\* an entry of the errors list
ParamError(name, m, a, b) == [param |-> name, m |-> m, a |-> a, b |-> b]

\* validate_parameters, first loop: one error per name of the batch that
\* the indicator does not define
RECURSIVE unknown_parameters(_, _)
unknown_parameters(parameters, params) ==
    IF params = << >> THEN << >>
    ELSE (IF Head(params).name \notin ParamNames(parameters)
              THEN << ParamError(Head(params).name, "Unknown parameter", NoneV, NoneV) >>
              ELSE << >>)
         \o unknown_parameters(parameters, Tail(params))

\* validate_parameters, second loop: over the definitions left to visit
\* (defs), one error per supplied value its definition rejects
RECURSIVE invalid_parameters(_, _)
invalid_parameters(defs, params) ==
    IF defs = << >> THEN << >>
    ELSE (IF Head(defs).name \in BatchNames(params)
              /\ ~validate(Head(defs), BatchValue(params, Head(defs).name)).ok
              THEN LET r == validate(Head(defs), BatchValue(params, Head(defs).name))
                   IN  << ParamError(Head(defs).name, r.m, r.a, r.b) >>
              ELSE << >>)
         \o invalid_parameters(Tail(defs), params)

\* a validate_parameters that stops at the first violation it finds
validate_parameters_first_only(parameters, params) ==
    LET all == unknown_parameters(parameters, params)
                   \o invalid_parameters(parameters, params)
        errors == IF all = << >> THEN << >> ELSE << Head(all) >>
    IN  [ok |-> Len(errors) = 0, errors |-> errors]

\* BaseIndicator.validate_parameters: (is_valid, error_messages)
validate_parameters(parameters, params) ==
    LET errors == unknown_parameters(parameters, params)
                      \o invalid_parameters(parameters, params)
    IN  [ok |-> Len(errors) = 0, errors |-> errors]

\* the commit loop of set_parameters: self.parameters[name].default = value
\* for every entry of the batch
RECURSIVE commit_parameters(_, _)
commit_parameters(parameters, params) ==
    IF params = << >> THEN parameters
    ELSE commit_parameters(
             [parameters EXCEPT ![ParamIndex(parameters, Head(params).name)].default =
                                    Head(params).value],
             Tail(params))

\* the commit loop run over the valid entries of a batch only
RECURSIVE commit_valid_entries(_, _)
commit_valid_entries(parameters, params) ==
    IF params = << >> THEN parameters
    ELSE LET e == Head(params)
             known == e.name \in ParamNames(parameters)
         IN  commit_valid_entries(
                 IF known /\ validate(parameters[ParamIndex(parameters, e.name)], e.value).ok
                     THEN [parameters EXCEPT ![ParamIndex(parameters, e.name)].default = e.value]
                     ELSE parameters,
                 Tail(params))

\* a set_parameters that commits whatever is valid and reports the rest
set_parameters_partial(inst, params) ==
    LET r == validate_parameters(inst.parameters, params)
    IN  [inst |-> [inst EXCEPT !.parameters = commit_valid_entries(@, params)],
         ok |-> r.ok, errors |-> r.errors]

\* a set_parameters that commits the first entry of a valid batch only
set_parameters_first_entry(inst, params) ==
    LET r == validate_parameters(inst.parameters, params)
    IN  [inst |-> IF r.ok /\ params # << >>
                      THEN [inst EXCEPT !.parameters = commit_parameters(@, << Head(params) >>)]
                      ELSE inst,
         ok |-> r.ok, errors |-> r.errors]

\* BaseIndicator.set_parameters: the instance afterwards and the
\* (is_valid, error_messages) pair returned
set_parameters(inst, params) ==
    LET r == validate_parameters(inst.parameters, params)
    IN  [inst |-> IF r.ok THEN [inst EXCEPT !.parameters = commit_parameters(@, params)]
                  ELSE inst,
         ok |-> r.ok, errors |-> r.errors]

\* BaseIndicator.get_parameters: the dict name -> current value
get_parameters(inst) ==
    [n \in ParamNames(inst.parameters) |->
        inst.parameters[ParamIndex(inst.parameters, n)].default]

\* PlotConfig: the name is f"{prefix}({n})", which config.name.split('(')[0]
\* cuts back to prefix; the styling fields are read by the renderer only
PlotConfig(prefix, n, type, yaxis) ==
    [prefix |-> prefix, n |-> n, type |-> type, yaxis |-> yaxis]

\* self.parameters[name].default
ParamDefault(inst, name) ==
    inst.parameters[ParamIndex(inst.parameters, name)].default

\* get_plot_configs of the classes whose instances reach it
get_plot_configs(inst) ==
    CASE inst.cls = "SimpleMovingAverage" ->
           << PlotConfig("SMA", ParamDefault(inst, "period").v, "line", "y") >>
      [] inst.cls = "ExponentialMovingAverage" ->
           << PlotConfig("EMA", ParamDefault(inst, "period").v, "line", "y") >>
      [] inst.cls = "RelativeStrengthIndex" ->
           << PlotConfig("RSI", ParamDefault(inst, "period").v, "line", "y2"),
              PlotConfig("Overbought ", 70, "line", "y2"),
              PlotConfig("Oversold ", 30, "line", "y2") >>
      [] inst.cls = "BollingerBands" ->
           << PlotConfig("BB Upper", ParamDefault(inst, "period").v, "line", "y"),
              PlotConfig("BB Middle", ParamDefault(inst, "period").v, "line", "y"),
              PlotConfig("BB Lower", ParamDefault(inst, "period").v, "line", "y") >>
      [] inst.cls = "MarketCipherA" ->
           << PlotConfig("MCA_WT1", 0, "line", "y2"),
              PlotConfig("MCA_WT2", 0, "line", "y2") >>
      [] inst.cls = "MarketCipherB" ->
           << PlotConfig("MCB_WT1", 0, "line", "y2"),
              PlotConfig("MCB_WT2", 0, "line", "y2"),
              PlotConfig("MCB_MFI", 0, "line", "y2") >>
      [] inst.cls = "PriceWithOscillator" ->
           << PlotConfig("PWO_Price", 0, "line", "y"),
              PlotConfig("PWO_Osc", 0, "line", "y2") >>
      [] inst.cls \in {"TestIndicator", "TestIndicatorV2"} ->
           << PlotConfig("Test", 20, "line", "y") >>
      [] OTHER -> << >>

\* BaseIndicator.get_metadata; param.to_dict() and config.to_dict() copy the
\* dataclass fields
get_metadata(inst) ==
    [name |-> getattr(inst.cls, "name"),
     version |-> getattr(inst.cls, "version"),
     description |-> getattr(inst.cls, "description"),
     author |-> getattr(inst.cls, "author"),
     parameters |-> inst.parameters,
     outputs |-> get_plot_configs(inst)]

\* get_metadata raises: an element of get_plot_configs() is no PlotConfig
\* and has no to_dict
get_metadata_raises(c) == ~Class(c).plotsArePlotConfigs

\* ------------------------------------------------------------------------
\* PluginManager (src/plugin_manager.py)
\* ------------------------------------------------------------------------
\* Python dicts keyed by strings
EmptyDict == [k \in {} |-> NoneV]

Put(d, k, x) == [j \in DOMAIN d \cup {k} |-> IF j = k THEN x ELSE d[j]]

\* the four tables of a PluginManager
Registry(lp, pi, pm, mm) ==
    [loaded_plugins |-> lp, plugin_instances |-> pi, plugin_metadata |-> pm,
     plugin_module_map |-> mm]

EmptyRegistry == Registry(EmptyDict, EmptyDict, EmptyDict, EmptyDict)

\* (success, error_message) pairs
Success == [success |-> TRUE, error |-> "", about |-> ""]

Failure(error, about) == [success |-> FALSE, error |-> error, about |-> about]

\* the content of a plugin file: absent, a module whose execution raises,
\* or a module with the classes dir(module) lists, sorted by name; a class
\* that the module only imports has another __module__
Absent == [kind |-> "absent", attrs |-> << >>]

Broken == [kind |-> "broken", attrs |-> << >>]

Defined(c) == [cls |-> c, imported |-> FALSE]

Imported(c) == [cls |-> c, imported |-> TRUE]

Module(attrs) == [kind |-> "module", attrs |-> attrs]

\* PluginManager._validate_plugin
_validate_plugin(c) ==
    IF \E a \in {"name", "version", "description", "author"} :
           ~hasattr(c, a) \/ getattr(c, a) = ""
        THEN Failure("Missing or empty attribute",
                     CHOOSE a \in {"name", "version", "description", "author"} :
                         ~hasattr(c, a) \/ getattr(c, a) = "")
    ELSE IF ~CanInstantiate(c) THEN Failure("Instantiation failed", c)
    ELSE IF ~Class(c).paramsIsDict THEN Failure("Parameters must be a dictionary", c)
    ELSE IF ~Class(c).plotsIsList THEN Failure("get_plot_configs() must return a list", c)
    ELSE Success

\* a store that keeps the class already registered under the name
store_plugin_keep_first(reg, module_name, c) ==
    IF getattr(c, "name") \in DOMAIN reg.loaded_plugins THEN reg
    ELSE Registry(Put(reg.loaded_plugins, getattr(c, "name"), c),
                  Put(reg.plugin_instances, getattr(c, "name"), NewInstance(c)),
                  reg.plugin_metadata,
                  Put(reg.plugin_module_map, getattr(c, "name"), module_name))

\* the body of load_plugin's loop for one class that passed validation:
\* the tables after "store the plugin" and "create instance"
store_plugin(reg, module_name, c) ==
    LET plugin_name == getattr(c, "name")
    IN  Registry(Put(reg.loaded_plugins, plugin_name, c),
                 Put(reg.plugin_instances, plugin_name, NewInstance(c)),
                 reg.plugin_metadata,
                 Put(reg.plugin_module_map, plugin_name, module_name))

\* load_plugin's loop over dir(module): attrs are the attributes left to
\* visit, loaded_classes the names registered so far
RECURSIVE load_classes(_, _, _, _)
load_classes(reg, module_name, attrs, loaded_classes) ==
    IF attrs = << >> THEN
        [reg |-> reg,
         result |-> IF loaded_classes = << >>
                        THEN Failure("No valid BaseIndicator subclasses found in", module_name)
                        ELSE Success]
    ELSE LET c == Head(attrs).cls
         IN  IF Head(attrs).imported \/ ~_validate_plugin(c).success
                 THEN load_classes(reg, module_name, Tail(attrs), loaded_classes)
             ELSE IF get_metadata_raises(c)
                 THEN [reg |-> store_plugin(reg, module_name, c),
                       result |-> Failure("Failed to instantiate", c)]
             ELSE load_classes(
                      [store_plugin(reg, module_name, c) EXCEPT
                           !.plugin_metadata =
                               Put(@, getattr(c, "name"), get_metadata(NewInstance(c)))],
                      module_name, Tail(attrs),
                      Append(loaded_classes, getattr(c, "name")))

\* the tables without the names registered from a module
Forget(reg, module_name) ==
    LET keep == {n \in DOMAIN reg.plugin_module_map :
                    reg.plugin_module_map[n] # module_name}
        Only(d) == [n \in DOMAIN d \cap keep |-> d[n]]
    IN  Registry(Only(reg.loaded_plugins), Only(reg.plugin_instances),
                 Only(reg.plugin_metadata), Only(reg.plugin_module_map))

\* a load_plugin that unregisters what the module registered earlier when
\* the module no longer loads
load_plugin_forgetting(reg, files, module_name) ==
    IF files[module_name].kind # "module"
        THEN [reg |-> Forget(reg, module_name), raised |-> FALSE,
              result |-> Failure("Error loading plugin", module_name)]
    ELSE LET r == load_classes(reg, module_name, files[module_name].attrs, << >>)
         IN  [reg |-> r.reg, raised |-> FALSE, result |-> r.result]

\* a load_plugin without its outer try/except: a module that fails to
\* execute raises out of the call
load_plugin_unguarded(reg, files, module_name) ==
    IF files[module_name].kind = "absent"
        THEN [reg |-> reg, raised |-> FALSE,
              result |-> Failure("Module file not found", module_name)]
    ELSE IF files[module_name].kind = "broken"
        THEN [reg |-> reg, raised |-> TRUE,
              result |-> Failure("Error loading plugin", module_name)]
    ELSE LET r == load_classes(reg, module_name, files[module_name].attrs, << >>)
         IN  [reg |-> r.reg, raised |-> FALSE, result |-> r.result]

\* PluginManager.load_plugin: the tables afterwards, the pair returned, and
\* whether an exception left the call
load_plugin(reg, files, module_name) ==
    IF files[module_name].kind = "absent"
        THEN [reg |-> reg, raised |-> FALSE,
              result |-> Failure("Module file not found", module_name)]
    ELSE IF files[module_name].kind = "broken"
        THEN [reg |-> reg, raised |-> FALSE,
              result |-> Failure("Error loading plugin", module_name)]
    ELSE LET r == load_classes(reg, module_name, files[module_name].attrs, << >>)
         IN  [reg |-> r.reg, raised |-> FALSE, result |-> r.result]

\* module names of the plugins directory; py_file.name.startswith("_")
\* holds of the package's __init__ only
ModuleNames == {"mod_a", "mod_b", "__init__"}

StartsWithUnderscore(module_name) == module_name \in {"__init__"}

\* PluginManager.discover_plugins: the module names of the *.py files
discover_plugins(files) ==
    {m \in DOMAIN files : files[m].kind # "absent" /\ ~StartsWithUnderscore(m)}

\* the orders in which a dict of these modules may be iterated: glob yields
\* the files in the order the file system lists them
Orders(modules) ==
    {o \in [1..Cardinality(modules) -> modules] :
        \A j, k \in DOMAIN o : j # k => o[j] # o[k]}

\* the loop of load_all_plugins over the modules left to load
RECURSIVE load_all_loop(_, _, _, _)
load_all_loop(reg, files, order, results) ==
    IF order = << >> THEN [reg |-> reg, results |-> results, raised |-> FALSE]
    ELSE LET r == load_plugin(reg, files, Head(order))
         IN  IF r.raised THEN [reg |-> r.reg, results |-> results, raised |-> TRUE]
             ELSE load_all_loop(r.reg, files, Tail(order),
                                Put(results, Head(order), r.result))

\* PluginManager.load_all_plugins, the discovered modules taken in order
load_all_plugins(reg, files, order) == load_all_loop(reg, files, order, EmptyDict)

\* a reload_plugins that forgets to clear the tables
reload_plugins_keeping(reg, files, order) == load_all_plugins(reg, files, order)

\* PluginManager.reload_plugins
reload_plugins(reg, files, order) == load_all_plugins(EmptyRegistry, files, order)

\* PluginManager.get_available_plugins: the names, sorted, as their set
get_available_plugins(reg) == DOMAIN reg.loaded_plugins

\* PluginManager.get_plugin, None when the name has no instance
get_plugin(reg, plugin_name) ==
    IF plugin_name \notin DOMAIN reg.plugin_instances THEN NoneV
    ELSE reg.plugin_instances[plugin_name]

\* PluginManager.get_plugin_class
get_plugin_class(reg, plugin_name) ==
    IF plugin_name \in DOMAIN reg.loaded_plugins
        THEN reg.loaded_plugins[plugin_name] ELSE "None"

\* PluginManager.get_plugin_metadata
get_plugin_metadata(reg, plugin_name) ==
    IF plugin_name \in DOMAIN reg.plugin_metadata
        THEN reg.plugin_metadata[plugin_name] ELSE NoneV

\* PluginManager.get_plugin_count
get_plugin_count(reg) == Cardinality(DOMAIN reg.loaded_plugins)

\* PluginManager.is_plugin_loaded
is_plugin_loaded(reg, plugin_name) == plugin_name \in DOMAIN reg.loaded_plugins

\* ------------------------------------------------------------------------
\* DataManager (src/data_manager.py) and the indicators' calculate
\* ------------------------------------------------------------------------
\* the columns validate_data requires, and those it scans for NaN, in the
\* order it scans them
RequiredColumns == {"open", "high", "low", "close", "volume"}

OHLC == << "open", "high", "low", "close" >>

\* what can be wrong with the rows of a frame: the required columns it
\* lacks, the open/high/low columns that hold a NaN (the close column's
\* values are kept in the frame), and the number of rows with high < low
Defects(absent, nans, inverted) ==
    [absent |-> absent, nans |-> nans, inverted |-> inverted]

NoDefects == Defects({}, {}, 0)

\* an OHLCV frame with numeric columns: its number of rows, the values of
\* its close column (none when the column is absent), its defects, and the
\* indicator columns added to it, in order
Frame(rows, close, defects, columns) ==
    [rows |-> rows, close |-> close, absent |-> defects.absent,
     nans |-> defects.nans, inverted |-> defects.inverted, columns |-> columns]

\* the column name f"{prefix}_{n}"; n = 0 for a name without a number
Column(prefix, n) == [prefix |-> prefix, n |-> n]

\* what a call returns or raises; message is what the exception's text
\* is built from
Returned(value) == [raised |-> "None", value |-> value, message |-> NoneV]

Raised(exception, message) == [raised |-> exception, value |-> NoneV, message |-> message]

\* the tickers asked for and the rows ohlc_data holds for them: thirty
\* trading days in six weeks of two months for AAPL, nothing for NONE
Tickers == {"AAPL", "NONE"}

DailyRows(ticker) == IF ticker = "AAPL" THEN 30 ELSE 0

WeeklyRows(ticker) == IF ticker = "AAPL" THEN 6 ELSE 0

MonthlyRows(ticker) == IF ticker = "AAPL" THEN 2 ELSE 0

\* the close of the i-th daily row, in tenths
DailyClose(rows) == [i \in 1..rows |-> FloatV(1000 + 10 * i)]

\* 'close': 'last' of resample: the close of the last day of each period
LastOfEach(close, periods) ==
    [k \in 1..periods |-> close[k * (Len(close) \div periods)]]

\* a DataManager: the table ohlc_data of its database (ticker -> number of
\* daily rows), the frame objects alive (object -> content) and its _cache
\* (cache key -> frame object)
DataManager(rows, objects, cache) ==
    [ohlc_data |-> rows, frames |-> objects, _cache |-> cache]

\* f"ohlcv_{ticker}"
CacheKey(ticker) == << "ohlcv", ticker >>

\* pd.read_sql_query(... FROM ohlc_data WHERE ticker = ? ORDER BY date ASC)
read_sql_query(rows, ticker) ==
    Frame(rows[ticker], DailyClose(rows[ticker]), NoDefects, << >>)

\* the object a new frame becomes: the first one not alive
new_object(objects) ==
    CHOOSE i \in 1..(Cardinality(DOMAIN objects) + 1) :
        /\ i \notin DOMAIN objects
        /\ \A j \in 1..(i - 1) : j \in DOMAIN objects

\* a copy that is the frame itself
share(objects, df) == [frames |-> objects, df |-> df]

\* df.copy(): a new object with the content of df
copy(objects, df) ==
    [frames |-> Put(objects, new_object(objects), objects[df]),
     df |-> new_object(objects)]

\* DataManager.get_ohlcv_data: the manager afterwards, the exception raised
\* if any, and the frame object returned; sqlite3_Error is whether the
\* database raises when it is read
get_ohlcv_data(dm, ticker, sqlite3_Error) ==
    LET cache_key == CacheKey(ticker)
    IN  IF cache_key \in DOMAIN dm._cache
            THEN LET hit == copy(dm.frames, dm._cache[cache_key])
                 IN  [dm |-> [dm EXCEPT !.frames = hit.frames],
                      raised |-> "None", value |-> hit.df]
        ELSE IF sqlite3_Error
            THEN [dm |-> dm, raised |-> "RuntimeError", value |-> NoneV]
        ELSE IF dm.ohlc_data[ticker] = 0
            THEN [dm |-> dm, raised |-> "ValueError", value |-> NoneV]
        ELSE LET df == new_object(dm.frames)
                 stored == copy(Put(dm.frames, df,
                                    read_sql_query(dm.ohlc_data, ticker)), df)
             IN  [dm |-> [dm EXCEPT !.frames = stored.frames,
                                    !._cache = Put(@, cache_key, stored.df)],
                  raised |-> "None", value |-> df]

\* DataManager.clear_cache
clear_cache(dm) == [dm EXCEPT !._cache = EmptyDict]

\* the frame objects still referenced from roots
Live(objects, roots) == [i \in DOMAIN objects \cap roots |-> objects[i]]

\* the frame objects a cache refers to
Cached(cache) == {cache[k] : k \in DOMAIN cache}

\* DataManager.aggregate_ohlcv of the frame of a ticker
aggregate_ohlcv(ticker, df, timeframe) ==
    IF timeframe = "daily" THEN Returned(df)
    ELSE IF timeframe = "weekly"
        THEN Returned([df EXCEPT !.rows = WeeklyRows(ticker),
                                 !.close = LastOfEach(@, WeeklyRows(ticker))])
    ELSE IF timeframe = "monthly"
        THEN Returned([df EXCEPT !.rows = MonthlyRows(ticker),
                                 !.close = LastOfEach(@, MonthlyRows(ticker))])
    ELSE Raised("ValueError", NoneV)

\* df.empty: no rows, or no column at all
empty(df) == df.rows = 0 \/ (df.absent = RequiredColumns /\ df.columns = << >>)

\* df[col].isna().sum() > 0
has_nan(df, col) ==
    IF col = "close" THEN \E i \in DOMAIN df.close : IsNaN(df.close[i])
    ELSE col \in df.nans

\* an entry of validate_data's errors list
DataError(m, about) == [m |-> m, about |-> about]

\* validate_data's loop over the OHLC columns left to scan
RECURSIVE nan_errors(_, _)
nan_errors(df, cols) ==
    IF cols = << >> THEN << >>
    ELSE (IF Head(cols) \notin df.absent /\ has_nan(df, Head(cols))
              THEN << DataError("contains NaN values", Head(cols)) >>
              ELSE << >>)
         \o nan_errors(df, Tail(cols))

\* BaseIndicator.validate_data: the errors list (is_valid is "it is empty")
validate_data(df) ==
    IF empty(df) THEN << DataError("DataFrame is empty", NoneV) >>
    ELSE (IF df.absent # {} THEN << DataError("Missing columns", df.absent) >>
          ELSE << >>)
         \o nan_errors(df, OHLC)
         \o (IF {"high", "low"} \cap df.absent = {} /\ df.inverted > 0
                 THEN << DataError("rows have high < low", df.inverted) >>
                 ELSE << >>)

\* the mean of nobs values whose sum is sum_x tenths
Mean(sum_x, nobs) == [t |-> "float", sum_x |-> sum_x, nobs |-> nobs]

\* Series.rolling(window).mean(), as pandas computes it: the window slides
\* over the values, a value that is not NaN is added to the sum and the
\* count when it enters and removed when it leaves, and a position whose
\* window holds fewer than window values that are not NaN is NaN.
\* out holds the positions done, nobs and sum_x the window ending there
RECURSIVE roll_mean(_, _, _, _, _)
roll_mean(values, window, out, nobs, sum_x) ==
    IF Len(out) = Len(values) THEN out
    ELSE LET i == Len(out) + 1
             enters == values[i]
             added == IF IsNaN(enters) THEN [nobs |-> nobs, sum_x |-> sum_x]
                      ELSE [nobs |-> nobs + 1, sum_x |-> sum_x + enters.v]
             now == IF i > window /\ ~IsNaN(values[i - window])
                        THEN [nobs |-> added.nobs - 1,
                              sum_x |-> added.sum_x - values[i - window].v]
                        ELSE added
         IN  roll_mean(values, window,
                       Append(out, IF now.nobs >= window THEN Mean(now.sum_x, now.nobs)
                                   ELSE NaN),
                       now.nobs, now.sum_x)

rolling_mean(values, window) == roll_mean(values, window, << >>, 0, 0)

\* a number the model does not compute
SomeNumber == [t |-> "float", v |-> 0, unknown |-> TRUE]

\* the values of a column whose arithmetic is modelled only as far as which
\* rows are NaN: those before row first_valid
ValidFrom(rows, first_valid) ==
    [i \in 1..rows |-> IF i < first_valid THEN NaN ELSE SomeNumber]

\* df[column_name].isna().all()
isna_all(column) == \A i \in DOMAIN column.values : IsNaN(column.values[i])

\* the names of the indicator columns of a frame, in order
column_names(df) == [i \in DOMAIN df.columns |-> Column(df.columns[i].prefix, df.columns[i].n)]

\* an assignment that leaves a column the frame already has as it is
assign_keeping(df_copy, name, inputs, values) ==
    LET column == [prefix |-> name.prefix, n |-> name.n, inputs |-> inputs,
                   values |-> values]
        at == {i \in DOMAIN df_copy.columns :
                  Column(df_copy.columns[i].prefix, df_copy.columns[i].n) = name}
    IN  IF at = {} THEN [df_copy EXCEPT !.columns = Append(@, column)]
        ELSE df_copy

\* df_copy[name] = values: the column is replaced where it stands when the
\* frame has one of that name, and added after the others when not.
\* inputs names the indicator columns of the frame the values were computed
\* from
assign(df_copy, name, inputs, values) ==
    LET column == [prefix |-> name.prefix, n |-> name.n, inputs |-> inputs,
                   values |-> values]
        at == {i \in DOMAIN df_copy.columns :
                  Column(df_copy.columns[i].prefix, df_copy.columns[i].n) = name}
    IN  IF at = {} THEN [df_copy EXCEPT !.columns = Append(@, column)]
        ELSE [df_copy EXCEPT !.columns[CHOOSE i \in at : TRUE] = column]

\* the columns named in names assigned one after the other, each the
\* values listed for it
RECURSIVE assign_all(_, _, _, _)
assign_all(df_copy, names, inputs, values) ==
    IF names = << >> THEN df_copy
    ELSE assign_all(assign(df_copy, Head(names), inputs, Head(values)),
                    Tail(names), inputs, Tail(values))

\* f"Data validation failed: {'; '.join(errors)}"
ValidationFailed(errors) ==
    Raised("ValueError", [text |-> "Data validation failed", errors |-> errors])

\* "DataFrame must contain '{col}' column"
MustContain(col) ==
    Raised("KeyError", [text |-> "DataFrame must contain column", column |-> col])

\* f"Period ({period}) cannot be greater than data length ({len(df)})"
PeriodTooLong(period, length) ==
    Raised("ValueError", [text |-> "Period cannot be greater than data length",
                          period |-> period, length |-> length])

\* the loop "for col in required_cols" of the Cipher indicators: the first
\* required column the frame lacks, if any
RECURSIVE first_absent(_, _)
first_absent(df, required_cols) ==
    IF required_cols = << >> THEN NoneV
    ELSE IF Head(required_cols) \in df.absent THEN StrV(Head(required_cols))
    ELSE first_absent(df, Tail(required_cols))

\* the column names f"{prefix}_{period}" for the prefixes given
period_columns(prefixes, period) == [i \in DOMAIN prefixes |-> Column(prefixes[i], period)]

\* the body shared by the calculate methods that take a period, after their
\* validation of the data: the close column, the period check, and the
\* columns assigned. values lists what each column is assigned
calculate_column(inst, df, prefixes, values) ==
    LET period == ParamDefault(inst, "period")
        names == period_columns(prefixes, period.v)
    IN  IF "close" \in df.absent THEN MustContain("close")
        ELSE IF period.v > df.rows THEN PeriodTooLong(period.v, df.rows)
        ELSE Returned(assign_all(df, names, column_names(df), values))

\* SimpleMovingAverage.calculate: "if not errors: raise", so it raises
\* when validate_data reports nothing
SimpleMovingAverage_calculate(inst, df) ==
    IF validate_data(df) = << >> THEN ValidationFailed(validate_data(df))
    ELSE calculate_column(inst, df, << "SMA" >>,
                          << rolling_mean(df.close, ParamDefault(inst, "period").v) >>)

\* the body shared by MarketCipherA.calculate and MarketCipherB.calculate
cipher_calculate(df, required_cols, names, values) ==
    IF validate_data(df) # << >> THEN ValidationFailed(validate_data(df))
    ELSE IF first_absent(df, required_cols) # NoneV
        THEN MustContain(first_absent(df, required_cols).v)
    ELSE Returned(assign_all(df, names, column_names(df), values))

\* calculate of an indicator instance. Every class but SimpleMovingAverage
\* raises when validate_data reports an error ("if not is_valid"). An ewm
\* mean has a value at every row, a rolling mean, sum or standard deviation
\* from the row that fills its window (a standard deviation needs two
\* values), the RSI of closes that move from row period, and the signal
\* columns of Market Cipher B are integers
calculate(inst, df) ==
    CASE inst.cls = "SimpleMovingAverage" -> SimpleMovingAverage_calculate(inst, df)
      [] inst.cls = "ExponentialMovingAverage" ->
           IF validate_data(df) # << >> THEN ValidationFailed(validate_data(df))
           ELSE calculate_column(inst, df, << "EMA" >>, << ValidFrom(df.rows, 1) >>)
      [] inst.cls = "RelativeStrengthIndex" ->
           IF validate_data(df) # << >> THEN ValidationFailed(validate_data(df))
           ELSE calculate_column(inst, df, << "RSI" >>,
                    << ValidFrom(df.rows, ParamDefault(inst, "period").v) >>)
      [] inst.cls = "BollingerBands" ->
           IF validate_data(df) # << >> THEN ValidationFailed(validate_data(df))
           ELSE calculate_column(inst, df,
                    << "BB_Middle", "BB_Upper", "BB_Lower", "BB_Width" >>,
                    << ValidFrom(df.rows, ParamDefault(inst, "period").v),
                       ValidFrom(df.rows, ParamDefault(inst, "period").v),
                       ValidFrom(df.rows, ParamDefault(inst, "period").v),
                       ValidFrom(df.rows, ParamDefault(inst, "period").v) >>)
      [] inst.cls = "MarketCipherA" ->
           cipher_calculate(df, << "high", "low", "close" >>,
               << Column("MCA_WT1", 0), Column("MCA_WT2", 0), Column("MCA_Hist", 0) >>,
               << ValidFrom(df.rows, 1), ValidFrom(df.rows, 4), ValidFrom(df.rows, 4) >>)
      [] inst.cls = "MarketCipherB" ->
           cipher_calculate(df, << "high", "low", "close", "volume" >>,
               << Column("MCB_WT1", 0), Column("MCB_WT2", 0), Column("MCB_MFI", 0),
                  Column("MCB_Hist", 0), Column("MCB_Buy", 0), Column("MCB_Sell", 0) >>,
               << ValidFrom(df.rows, 1), ValidFrom(df.rows, 4),
                  ValidFrom(df.rows, ParamDefault(inst, "mfi_length").v),
                  ValidFrom(df.rows, 4), ValidFrom(df.rows, 1), ValidFrom(df.rows, 1) >>)
      [] inst.cls \in {"TestIndicator", "TestIndicatorV2"} ->
           IF validate_data(df) # << >> THEN ValidationFailed(validate_data(df))
           ELSE IF "close" \in df.absent THEN MustContain("close")
           ELSE Returned(assign(df, Column("TEST_VALUE", 0), column_names(df),
                                rolling_mean(df.close, ParamDefault(inst, "period").v)))
      [] inst.cls = "PriceWithOscillator" ->
           IF validate_data(df) # << >> THEN ValidationFailed(validate_data(df))
           ELSE Returned(assign_all(df, << Column("PWO_Price", 0), Column("PWO_Osc", 0) >>,
                                    column_names(df),
                                    << ValidFrom(df.rows, 1), ValidFrom(df.rows, 1) >>))
      [] OTHER -> Returned(df)

\* ------------------------------------------------------------------------
\* InteractiveChartEngine (src/chart_engine.py)
\* ------------------------------------------------------------------------
\* the body of _add_indicators's loop for one selected name: look the
\* shared instance up, apply the request's overrides to it and calculate.
\* acc is what the loop has built so far: the exception raised and the
\* indicator its message names, and computed, which lists per calculated
\* indicator the parameter values it calculated with and the indicator
\* columns of the frame it received
add_indicator(acc, indicator_name, params) ==
    With(get_plugin(acc.reg, indicator_name), LAMBDA indicator :
        IF indicator = NoneV
            THEN [acc EXCEPT !.raised = "KeyError", !.about = indicator_name]
        ELSE With(IF indicator_name \in DOMAIN params
                      THEN set_parameters(indicator, params[indicator_name])
                      ELSE [inst |-> indicator, ok |-> TRUE, errors |-> << >>],
                  LAMBDA s :
            IF ~s.ok
                THEN [acc EXCEPT !.raised = "ValueError", !.about = indicator_name]
            ELSE With(calculate(s.inst, acc.df), LAMBDA c :
                [reg |-> [acc.reg EXCEPT !.plugin_instances =
                                             Put(@, indicator_name, s.inst)],
                 raised |-> IF c.raised # "None" THEN "ValueError" ELSE "None",
                 about |-> IF c.raised # "None" THEN indicator_name ELSE "",
                 df |-> IF c.raised # "None" THEN acc.df ELSE c.value,
                 computed |->
                     IF c.raised # "None" THEN acc.computed
                     ELSE Append(acc.computed,
                                 [indicator |-> indicator_name,
                                  parameters |-> get_parameters(s.inst),
                                  received |-> column_names(acc.df)])])))

\* the loop of _add_indicators over the names left, left at the first
\* exception
RECURSIVE add_indicators_loop(_, _, _)
add_indicators_loop(acc, indicators, params) ==
    IF indicators = << >> \/ acc.raised # "None" THEN acc
    ELSE With(add_indicator(acc, Head(indicators), params), LAMBDA next :
             add_indicators_loop(next, Tail(indicators), params))

\* InteractiveChartEngine._add_indicators
_add_indicators(reg, df, indicators, params) ==
    add_indicators_loop([reg |-> reg, raised |-> "None", about |-> "", df |-> df,
                         computed |-> << >>],
                        indicators, params)

\* a trace of the figure: its name, the row it is drawn in
Trace(prefix, n, type, row) == [prefix |-> prefix, n |-> n, type |-> type, row |-> row]

\* col.startswith(config.name.split('(')[0]): no prefix of these plot
\* names starts another, so a column starts with it when it was built on it
StartsWith(col, config) == col.prefix = config.prefix

\* the traces _add_indicator_traces draws for the plot configs left to visit
RECURSIVE config_traces(_, _, _, _)
config_traces(configs, df, price_row, indicator_row) ==
    IF configs = << >> THEN << >>
    ELSE LET config == Head(configs)
             found == {i \in DOMAIN df.columns : StartsWith(df.columns[i], config)}
             column_name == CHOOSE i \in found : \A j \in found : i <= j
             target_row == IF config.yaxis = "y2" THEN indicator_row ELSE price_row
         IN  (IF found = {} THEN << >>
              ELSE IF isna_all(df.columns[column_name]) THEN << >>
              ELSE IF config.type \notin {"line", "bar"} THEN << >>
              ELSE << Trace(config.prefix, config.n, config.type, target_row) >>)
             \o config_traces(Tail(configs), df, price_row, indicator_row)

\* _add_indicator_traces
RECURSIVE _add_indicator_traces(_, _, _, _, _)
_add_indicator_traces(reg, df, indicators, price_row, indicator_row) ==
    IF indicators = << >> THEN << >>
    ELSE LET indicator == get_plugin(reg, Head(indicators))
         IN  (IF indicator = NoneV THEN << >>
              ELSE config_traces(get_plot_configs(indicator), df, price_row, indicator_row))
             \o _add_indicator_traces(reg, df, Tail(indicators), price_row, indicator_row)

\* a check that looks at every plot config of the selected indicators
has_separate_indicator_any(reg, indicators) ==
    \E i \in DOMAIN indicators :
        LET plugin == get_plugin(reg, indicators[i])
        IN  /\ plugin # NoneV
            /\ \E j \in DOMAIN get_plot_configs(plugin) :
                   get_plot_configs(plugin)[j].yaxis = "y2"

\* create_candlestick_chart, "any indicators need a separate subplot"
has_separate_indicator(reg, indicators) ==
    \E i \in DOMAIN indicators :
        LET plugin == get_plugin(reg, indicators[i])
        IN  /\ plugin # NoneV
            /\ get_plot_configs(plugin) # << >>
            /\ get_plot_configs(plugin)[1].yaxis = "y2"

\* row heights that leave the indicator pane out when volume is shown
row_heights_without_indicator(separate, show_volume) ==
    IF show_volume THEN << 70, 30 >>
    ELSE IF separate THEN << 70, 30 >>
    ELSE << 100 >>

\* create_candlestick_chart, the row heights in hundredths
row_heights(separate, show_volume) ==
    IF separate /\ show_volume THEN << 50, 25, 25 >>
    ELSE IF separate THEN << 70, 30 >>
    ELSE IF show_volume THEN << 70, 30 >>
    ELSE << 100 >>

\* create_candlestick_chart from "Check if any indicators need a separate
\* subplot" on, df being the aggregated frame
compose_chart(reg, df, indicators, indicator_params, show_volume) ==
    With(has_separate_indicator(reg, indicators), LAMBDA separate :
    With(_add_indicators(reg, df, indicators, indicator_params), LAMBDA added :
        LET n_subplots == 1 + (IF show_volume THEN 1 ELSE 0)
                            + (IF separate THEN 1 ELSE 0)
            indicator_row == IF separate THEN n_subplots ELSE 1
        IN  IF added.raised # "None"
                THEN [reg |-> added.reg, raised |-> added.raised,
                      about |-> added.about, calculated |-> added.computed,
                      df_with_indicators |-> NoneV, figure |-> NoneV]
            ELSE [reg |-> added.reg, raised |-> "None", about |-> "",
                  calculated |-> added.computed, df_with_indicators |-> added.df,
                  figure |->
                      [rows |-> n_subplots,
                       row_heights |-> row_heights(separate, show_volume),
                       traces |->
                           << Trace("OHLC", 0, "candlestick", 1) >>
                           \o (IF show_volume THEN << Trace("Volume", 0, "bar", 2) >>
                               ELSE << >>)
                           \o _add_indicator_traces(added.reg, added.df, indicators,
                                                    1, indicator_row),
                       computed |-> added.computed]]))

\* InteractiveChartEngine.create_candlestick_chart: the tables afterwards,
\* the exception raised if any and the indicator its message names, the
\* indicators calculated before it returned or raised, the frame
\* _add_indicators returned, the figure returned, and the data manager
\* afterwards; the database is readable
create_candlestick_chart(reg, dm, ticker, timeframe, indicators, indicator_params, show_volume) ==
    IF timeframe \notin {"daily", "weekly", "monthly"}
        THEN [reg |-> reg, raised |-> "ValueError", about |-> "",
              calculated |-> << >>, df_with_indicators |-> NoneV, figure |-> NoneV,
              dm |-> dm]
    ELSE With(get_ohlcv_data(dm, ticker, FALSE), LAMBDA got :
        IF got.raised # "None"
            THEN [reg |-> reg, raised |-> got.raised, about |-> "",
                  calculated |-> << >>, df_with_indicators |-> NoneV,
                  figure |-> NoneV, dm |-> got.dm]
        ELSE With(aggregate_ohlcv(ticker, got.dm.frames[got.value], timeframe).value,
                  LAMBDA df :
                      [dm |-> got.dm]
                      @@ compose_chart(reg, df, indicators, indicator_params,
                                       show_volume)))

\* ------------------------------------------------------------------------
\* State
\* ------------------------------------------------------------------------
VARIABLES
    plugin_files,       \* the plugins directory: module name -> file content
    loaded_plugins,     \* PluginManager.loaded_plugins: name -> class
    plugin_instances,   \* PluginManager.plugin_instances: name -> instance
    plugin_metadata,    \* PluginManager.plugin_metadata: name -> metadata
    plugin_module_map,  \* PluginManager._plugin_module_map: name -> module name
    indicator,          \* an indicator instance a caller holds outside a registry
    ohlc_data,          \* the table ohlc_data: ticker -> number of daily rows
    frames,             \* the frame objects alive: object -> content
    _cache,             \* DataManager._cache: cache key -> frame object
    df1,                \* ticker -> the first frame a caller was returned and kept
    requests,           \* the chart requests running side by side: where each is in _add_indicators
    last                \* the last call made: its arguments and what it returned

vars ==
    << plugin_files, loaded_plugins, plugin_instances, plugin_metadata,
       plugin_module_map, indicator, ohlc_data, frames, _cache, df1, requests, last >>

data == << ohlc_data, frames, _cache, df1 >>

registry ==
    << plugin_files, loaded_plugins, plugin_instances, plugin_metadata,
       plugin_module_map >>

\* no call is recorded: the caller is between two calls
Idle == [op |-> "idle"]

\* DataManager(db_path): self._cache = {}, over the database as it stands;
\* no frame exists yet
NewDataManager ==
    /\ ohlc_data = [t \in Tickers |-> DailyRows(t)]
    /\ frames = EmptyDict
    /\ _cache = EmptyDict
    /\ df1 = EmptyDict

DM == DataManager(ohlc_data, frames, _cache)

\* the requests that may run side by side, and none of them running
Requests == {"first", "second"}

NoRequest == [pc |-> "idle"]

NoRequests == [r \in Requests |-> NoRequest]

\* ------------------------------------------------------------------------
\* Parameter operations on one indicator instance
\* ------------------------------------------------------------------------
\* classes whose instances the parameter calls are made on
ParamClasses == {"TestIndicator", "SimpleMovingAverage", "BollingerBands"}

\* values offered for a parameter: around both bounds as int and as float,
\* and one value of each other type
ValuesFor(pd) ==
    {IntV(pd.min_value.v - 1), IntV(pd.max_value.v + 1)}
        \cup (IF pd.type = "int"
                  THEN {IntV(pd.min_value.v), IntV(pd.max_value.v),
                        FloatV(Num(pd.min_value))}
                  ELSE {FloatV(Num(pd.min_value) - 1), FloatV(Num(pd.min_value)),
                        FloatV(Num(pd.max_value)), FloatV(Num(pd.max_value) + 1),
                        IntV(pd.max_value.v \div 10), NaN})
        \cup {BoolV(TRUE), StrV(0)}

\* names no indicator defines
UnknownNames == {"bogus"}

\* the entries a batch for these parameters may hold
EntriesFor(parameters) ==
    UNION {{[name |-> parameters[i].name, value |-> v] : v \in ValuesFor(parameters[i])} :
               i \in DOMAIN parameters}
    \cup {[name |-> n, value |-> IntV(1)] : n \in UnknownNames}

\* the batches of at most MaxBatch entries with distinct names
BatchesFor(parameters) ==
    {b \in UNION {[1..n -> EntriesFor(parameters)] : n \in 0..MaxBatch} :
        \A i, j \in DOMAIN b : i # j => b[i].name # b[j].name}

\* the caller holds an indicator it made itself; there is no PluginManager
NoRegistry ==
    /\ plugin_files = [m \in ModuleNames |-> Absent]
    /\ loaded_plugins = EmptyDict
    /\ plugin_instances = EmptyDict
    /\ plugin_metadata = EmptyDict
    /\ plugin_module_map = EmptyDict

InitParams ==
    /\ NoRegistry
    /\ indicator \in {NewInstance(c) : c \in ParamClasses}
    /\ NewDataManager
    /\ requests = NoRequests
    /\ last = Idle

\* param_def.validate(value) on one of the indicator's definitions
Validate(pd, value) ==
    /\ last = Idle
    /\ last' = [op |-> "validate", pd |-> pd, value |-> value,
                result |-> validate(pd, value)]
    /\ UNCHANGED << registry, indicator, data, requests >>

\* indicator.validate_parameters(params)
ValidateParameters(params) ==
    /\ last = Idle
    /\ last' = [op |-> "validate_parameters", params |-> params,
                result |-> validate_parameters(indicator.parameters, params)]
    /\ UNCHANGED << registry, indicator, data, requests >>

\* indicator.set_parameters(params)
SetParameters(params) ==
    /\ last = Idle
    /\ \E r \in {set_parameters(indicator, params)} :
        /\ indicator' = r.inst
        /\ last' = [op |-> "set_parameters", params |-> params,
                    before |-> get_parameters(indicator),
                    ok |-> r.ok, errors |-> r.errors]
        /\ UNCHANGED << registry, data, requests >>

\* indicator.get_parameters()
GetParameters ==
    /\ last = Idle
    /\ last' = [op |-> "get_parameters", result |-> get_parameters(indicator)]
    /\ UNCHANGED << registry, indicator, data, requests >>

\* the caller is done with what the last call returned
Return ==
    /\ last # Idle
    /\ last' = Idle
    /\ UNCHANGED << registry, indicator, data, requests >>

NextParams ==
    \/ \E i \in DOMAIN indicator.parameters :
           \E v \in ValuesFor(indicator.parameters[i]) :
               Validate(indicator.parameters[i], v)
    \/ last = Idle /\ \E params \in BatchesFor(indicator.parameters) :
                           ValidateParameters(params)
    \/ last = Idle /\ \E params \in BatchesFor(indicator.parameters) :
                           SetParameters(params)
    \/ GetParameters
    \/ Return

SpecParams == InitParams /\ [][NextParams]_vars

\* ------------------------------------------------------------------------
\* The plugin registry over a directory that changes
\* ------------------------------------------------------------------------
\* the tables of the PluginManager as one record
Reg == Registry(loaded_plugins, plugin_instances, plugin_metadata, plugin_module_map)

SetReg(reg) ==
    /\ loaded_plugins' = reg.loaded_plugins
    /\ plugin_instances' = reg.plugin_instances
    /\ plugin_metadata' = reg.plugin_metadata
    /\ plugin_module_map' = reg.plugin_module_map

\* contents the file of each module may have
FilesOf(module_name) ==
    CASE module_name = "mod_a" ->
           {Absent, Broken,
            Module(<< Defined("TestIndicator") >>),
            Module(<< Defined("ExponentialMovingAverage"), Defined("PlotsNotConfigs") >>),
            Module(<< Defined("PlotsNotConfigs"), Defined("TestIndicator") >>),
            Module(<< Defined("NoDescription"), Defined("TestIndicator") >>),
            Module(<< Imported("ExponentialMovingAverage"), Defined("TestIndicator") >>)}
      [] module_name = "mod_b" ->
           {Absent, Module(<< Defined("TestIndicatorV2") >>)}
               \cup {Module(<< Defined(c) >>) :
                        c \in {"NoName", "NoVersion", "NoDescription",
                               "EmptyName", "EmptyVersion", "EmptyDescription",
                               "EmptyAuthor", "Abstract", "ParamsNotDict",
                               "PlotsNotList"}}
      [] OTHER -> {Module(<< >>)}

\* the directories these files make
Directories ==
    {[m \in ModuleNames |->
         IF m = "mod_a" THEN a ELSE IF m = "mod_b" THEN b ELSE Module(<< >>)] :
        a \in FilesOf("mod_a"), b \in FilesOf("mod_b")}

\* PluginManager(plugins_dir) on a directory with any of these contents
InitRegistry ==
    /\ plugin_files \in Directories
    /\ loaded_plugins = EmptyDict
    /\ plugin_instances = EmptyDict
    /\ plugin_metadata = EmptyDict
    /\ plugin_module_map = EmptyDict
    /\ indicator = NoneV
    /\ NewDataManager
    /\ requests = NoRequests
    /\ last = Idle

\* a plugin file is written, replaced or removed
WritePlugin(module_name, content) ==
    /\ last = Idle
    /\ plugin_files[module_name] # content
    /\ plugin_files' = [plugin_files EXCEPT ![module_name] = content]
    /\ UNCHANGED << loaded_plugins, plugin_instances, plugin_metadata,
                    plugin_module_map, indicator, data, requests, last >>

\* pm.load_plugin(module_name)
LoadPlugin(module_name) ==
    /\ last = Idle
    /\ \E r \in {load_plugin(Reg, plugin_files, module_name)} :
        /\ SetReg(r.reg)
        /\ last' = [op |-> "load_plugin", module_name |-> module_name,
                    before |-> loaded_plugins, result |-> r.result, raised |-> r.raised]
        /\ UNCHANGED << plugin_files, indicator, data, requests >>

\* pm.load_all_plugins()
LoadAllPlugins(order) ==
    /\ last = Idle
    /\ \E r \in {load_all_plugins(Reg, plugin_files, order)} :
        /\ SetReg(r.reg)
        /\ last' = [op |-> "load_all_plugins", order |-> order,
                    before |-> loaded_plugins,
                    results |-> r.results, raised |-> r.raised]
        /\ UNCHANGED << plugin_files, indicator, data, requests >>

\* pm.reload_plugins()
ReloadPlugins(order) ==
    /\ last = Idle
    /\ \E r \in {reload_plugins(Reg, plugin_files, order)} :
        /\ SetReg(r.reg)
        /\ last' = [op |-> "reload_plugins", order |-> order,
                    before |-> loaded_plugins,
                    results |-> r.results, raised |-> r.raised]
        /\ UNCHANGED << plugin_files, indicator, data, requests >>

NextRegistry ==
    \/ \E m \in ModuleNames : \E content \in FilesOf(m) : WritePlugin(m, content)
    \/ \E m \in ModuleNames : LoadPlugin(m)
    \/ \E order \in Orders(discover_plugins(plugin_files)) : LoadAllPlugins(order)
    \/ \E order \in Orders(discover_plugins(plugin_files)) : ReloadPlugins(order)
    \/ Return

SpecRegistry == InitRegistry /\ [][NextRegistry]_vars

\* ------------------------------------------------------------------------
\* A DataManager, the database under it, and a caller that keeps the first
\* frame it was returned for each ticker
\* ------------------------------------------------------------------------
InitData ==
    /\ NoRegistry
    /\ indicator = NoneV
    /\ NewDataManager
    /\ requests = NoRequests
    /\ last = Idle

\* the frame objects the caller keeps
Kept == {df1[t].df : t \in DOMAIN df1}

\* a content of the cache: cache key -> content of the frame cached
Contents(objects, cache) == [k \in DOMAIN cache |-> objects[cache[k]]]

\* df = dm.get_ohlcv_data(ticker); the caller keeps the first frame it is
\* returned for a ticker, and notes what was in it
GetOhlcvData(ticker, sqlite3_Error) ==
    /\ last = Idle
    /\ \E got \in {get_ohlcv_data(DM, ticker, sqlite3_Error)} :
        /\ frames' = got.dm.frames
        /\ _cache' = got.dm._cache
        /\ df1' = IF got.raised = "None" /\ ticker \notin DOMAIN df1
                      THEN Put(df1, ticker,
                               [df |-> got.value, content |-> got.dm.frames[got.value]])
                  ELSE df1
        /\ last' = [op |-> "get_ohlcv_data", ticker |-> ticker,
                    sqlite3_Error |-> sqlite3_Error,
                    before |-> Contents(frames, _cache),
                    raised |-> got.raised, result |-> got.value]
    /\ UNCHANGED << registry, indicator, ohlc_data, requests >>

\* df['close'] = 0.0 on a frame the caller holds
Overwritten(content) == [content EXCEPT !.close = [i \in DOMAIN @ |-> FloatV(0)]]

\* the caller writes into the frame it was just returned, or into one it kept
ChangeFrame(df) ==
    /\ \/ last = Idle /\ df \in Kept
       \/ last.op = "get_ohlcv_data" /\ last.raised = "None" /\ df = last.result
    /\ frames[df] # Overwritten(frames[df])
    /\ frames' = [frames EXCEPT ![df] = Overwritten(@)]
    /\ last' = [op |-> "change", df |-> df]
    /\ UNCHANGED << registry, indicator, ohlc_data, _cache, df1, requests >>

\* dm.clear_cache(); the caller starts over
ClearCache ==
    /\ last = Idle
    /\ _cache' = clear_cache(DM)._cache
    /\ df1' = EmptyDict
    /\ frames' = Live(frames, {})
    /\ last' = [op |-> "clear_cache"]
    /\ UNCHANGED << registry, indicator, ohlc_data, requests >>

\* market_data.py stores another daily row of a ticker
InsertRow(ticker) ==
    /\ last = Idle
    /\ ohlc_data[ticker] < DailyRows(ticker) + MaxNewRows
    /\ ohlc_data' = [ohlc_data EXCEPT ![ticker] = @ + 1]
    /\ UNCHANGED << registry, indicator, frames, _cache, df1, requests, last >>

\* the caller goes on; a frame nothing refers to any more is gone
ReturnData ==
    /\ last # Idle
    /\ last' = Idle
    /\ frames' = Live(frames, Kept \cup Cached(_cache))
    /\ UNCHANGED << registry, indicator, ohlc_data, _cache, df1, requests >>

NextData ==
    \/ \E t \in Tickers : \E e \in BOOLEAN : GetOhlcvData(t, e)
    \/ \E df \in DOMAIN frames : ChangeFrame(df)
    \/ ClearCache
    \/ \E t \in Tickers : InsertRow(t)
    \/ ReturnData

SpecData == InitData /\ [][NextData]_vars

\* ------------------------------------------------------------------------
\* The application: one PluginManager, its plugins directory, and the chart
\* engine that composes charts from the registered instances
\* ------------------------------------------------------------------------
\* contents of the two plugin files: the moving averages in one, which is
\* at times removed, the RSI in the other, which is edited and at times
\* does not execute
AppFilesOf(module_name) ==
    CASE module_name = "mod_a" ->
           {Absent,
            Module(<< Imported("RelativeStrengthIndex"),
                      Defined("ExponentialMovingAverage"),
                      Defined("SimpleMovingAverage") >>)}
      [] module_name = "mod_b" ->
           {Broken, Module(<< Defined("RelativeStrengthIndex") >>)}
      [] OTHER -> {Module(<< >>)}

\* the display names of the three classes, which a chart request selects
\* from whether they are registered or not
IndicatorNames ==
    {getattr(c, "name") : c \in {"ExponentialMovingAverage", "SimpleMovingAverage",
                                 "RelativeStrengthIndex"}}

\* the names a caller looks up: these and one that no class has
PluginNames == IndicatorNames \cup {"Missing"}

\* the time frames a chart is asked in
Timeframes == {"daily", "weekly", "hourly"}

\* the batches a request carries for an indicator: a valid period and one
\* below the minimum
Overrides ==
    {<< [name |-> "period", value |-> IntV(5)] >>,
     << [name |-> "period", value |-> IntV(1)] >>}

\* the batches a caller sets on a registered instance: these and one with
\* an unknown name
Batches == Overrides \cup {<< [name |-> "bogus", value |-> IntV(1)] >>}

\* the lists of at most MaxIndicators names
IndicatorLists == UNION {[1..n -> IndicatorNames] : n \in 0..MaxIndicators}

\* the indicator_params a request for these indicators may carry
IndicatorParams(indicators) ==
    UNION {[names -> Overrides] : names \in SUBSET {indicators[i] : i \in DOMAIN indicators}}

\* PluginManager(plugins_dir), nothing loaded yet
Init ==
    /\ plugin_files \in
           {[m \in ModuleNames |->
                IF m = "mod_a" THEN a ELSE IF m = "mod_b" THEN b ELSE Module(<< >>)] :
               a \in AppFilesOf("mod_a"), b \in AppFilesOf("mod_b")}
    /\ loaded_plugins = EmptyDict
    /\ plugin_instances = EmptyDict
    /\ plugin_metadata = EmptyDict
    /\ plugin_module_map = EmptyDict
    /\ indicator = NoneV
    /\ NewDataManager
    /\ requests = NoRequests
    /\ last = Idle

\* pm.get_available_plugins()
GetAvailablePlugins ==
    /\ last = Idle
    /\ last' = [op |-> "get_available_plugins", result |-> get_available_plugins(Reg)]
    /\ UNCHANGED << registry, indicator, data, requests >>

\* pm.get_plugin(plugin_name)
GetPlugin(plugin_name) ==
    /\ last = Idle
    /\ last' = [op |-> "get_plugin", plugin_name |-> plugin_name,
                result |-> get_plugin(Reg, plugin_name)]
    /\ UNCHANGED << registry, indicator, data, requests >>

\* pm.get_plugin_class(plugin_name)
GetPluginClass(plugin_name) ==
    /\ last = Idle
    /\ last' = [op |-> "get_plugin_class", plugin_name |-> plugin_name,
                result |-> get_plugin_class(Reg, plugin_name)]
    /\ UNCHANGED << registry, indicator, data, requests >>

\* pm.get_plugin_metadata(plugin_name)
GetPluginMetadata(plugin_name) ==
    /\ last = Idle
    /\ last' = [op |-> "get_plugin_metadata", plugin_name |-> plugin_name,
                result |-> get_plugin_metadata(Reg, plugin_name)]
    /\ UNCHANGED << registry, indicator, data, requests >>

\* pm.get_plugin_count()
GetPluginCount ==
    /\ last = Idle
    /\ last' = [op |-> "get_plugin_count", result |-> get_plugin_count(Reg)]
    /\ UNCHANGED << registry, indicator, data, requests >>

\* pm.is_plugin_loaded(plugin_name)
IsPluginLoaded(plugin_name) ==
    /\ last = Idle
    /\ last' = [op |-> "is_plugin_loaded", plugin_name |-> plugin_name,
                result |-> is_plugin_loaded(Reg, plugin_name)]
    /\ UNCHANGED << registry, indicator, data, requests >>

\* pm.get_plugin(plugin_name).set_parameters(params): the instance the
\* registry hands out is the one it keeps
SetPluginParameters(plugin_name, params) ==
    /\ last = Idle
    /\ get_plugin(Reg, plugin_name) # NoneV
    /\ \E r \in {set_parameters(get_plugin(Reg, plugin_name), params)} :
        /\ plugin_instances' = Put(plugin_instances, plugin_name, r.inst)
        /\ last' = [op |-> "set_parameters", plugin_name |-> plugin_name,
                    params |-> params,
                    before |-> get_parameters(get_plugin(Reg, plugin_name)),
                    ok |-> r.ok, errors |-> r.errors]
        /\ UNCHANGED << plugin_files, loaded_plugins, plugin_metadata,
                        plugin_module_map, indicator, data, requests >>

\* chart_engine.create_candlestick_chart(ticker, timeframe, indicators,
\* indicator_params, show_volume=show_volume)
CreateCandlestickChart(ticker, timeframe, indicators, indicator_params, show_volume) ==
    /\ last = Idle
    /\ \E r \in {create_candlestick_chart(Reg, DM, ticker, timeframe, indicators,
                                         indicator_params, show_volume)} :
        /\ SetReg(r.reg)
        /\ _cache' = r.dm._cache
        /\ frames' = Live(r.dm.frames, Cached(r.dm._cache))
        /\ last' = [op |-> "create_candlestick_chart", ticker |-> ticker,
                    timeframe |-> timeframe, indicators |-> indicators,
                    indicator_params |-> indicator_params,
                    show_volume |-> show_volume,
                    raised |-> r.raised, about |-> r.about,
                    calculated |-> r.calculated,
                    df_with_indicators |-> r.df_with_indicators,
                    figure |-> r.figure]
        /\ UNCHANGED << plugin_files, indicator, ohlc_data, df1, requests >>

Next ==
    \/ \E m \in ModuleNames : \E content \in AppFilesOf(m) : WritePlugin(m, content)
    \/ \E m \in ModuleNames : LoadPlugin(m)
    \/ \E order \in Orders(discover_plugins(plugin_files)) : LoadAllPlugins(order)
    \/ \E order \in Orders(discover_plugins(plugin_files)) : ReloadPlugins(order)
    \/ GetAvailablePlugins
    \/ \E n \in PluginNames : GetPlugin(n)
    \/ \E n \in PluginNames : GetPluginClass(n)
    \/ \E n \in PluginNames : GetPluginMetadata(n)
    \/ GetPluginCount
    \/ \E n \in PluginNames : IsPluginLoaded(n)
    \/ \E n \in PluginNames : \E params \in Batches : SetPluginParameters(n, params)
    \/ last = Idle
           /\ \E ticker \in Tickers, timeframe \in Timeframes,
                 indicators \in IndicatorLists, show_volume \in BOOLEAN :
                  \E indicator_params \in IndicatorParams(indicators) :
                      CreateCandlestickChart(ticker, timeframe, indicators,
                                             indicator_params, show_volume)
    \/ Return

Spec == Init /\ [][Next]_vars

\* the application's own use of the engine: the plugins are loaded, then
\* charts are requested
NextRequests ==
    \/ \E order \in Orders(discover_plugins(plugin_files)) : LoadAllPlugins(order)
    \/ last = Idle
           /\ \E ticker \in Tickers, timeframe \in Timeframes,
                 indicators \in IndicatorLists, show_volume \in BOOLEAN :
                  \E indicator_params \in IndicatorParams(indicators) :
                      CreateCandlestickChart(ticker, timeframe, indicators,
                                             indicator_params, show_volume)
    \/ Return

SpecRequests == Init /\ [][NextRequests]_vars

\* ------------------------------------------------------------------------
\* calculate and validate_data of one built-in indicator instance on the
\* frames a caller may pass
\* ------------------------------------------------------------------------
\* the close values of the frames passed: two prices and a missing value
CloseValues == {FloatV(1000), FloatV(1030), NaN}

\* the close columns of at most MaxRows rows
CloseColumns == UNION {[1..n -> CloseValues] : n \in 0..MaxRows}

\* the sets of required columns a frame passed may lack
AbsentColumns == {{}, {"close"}, {"volume"}, {"high", "close"}, RequiredColumns}

\* the defects of the frames passed
DefectsPassed ==
    {Defects(absent, nans, inverted) :
        absent \in AbsentColumns,
        nans \in {{}, {"high"}, {"open", "low"}},
        inverted \in 0..1}

\* closes 100, 101, ..., 109
TenCloses == [i \in 1..10 |-> FloatV(1000 + 10 * (i - 1))]

\* the frames passed: every frame of at most MaxRows rows with these
\* defects (a column that is absent holds no NaN, rows with high < low need
\* both columns and a row), and the ten closes, alone and with a row whose
\* high is below its low
ComputeFrames ==
    {Frame(Len(p[1]), IF "close" \in p[2].absent THEN << >> ELSE p[1], p[2], << >>) :
        p \in {p \in CloseColumns \X DefectsPassed :
                  /\ p[2].nans \cap p[2].absent = {}
                  /\ p[2].inverted > 0 => {"high", "low"} \cap p[2].absent = {}
                  /\ Len(p[1]) = 0 => p[2].nans = {} /\ p[2].inverted = 0}}
    \cup {Frame(10, TenCloses, Defects({}, {}, inverted), << >>) : inverted \in 0..1}

\* the periods a caller sets: the least one, the longest frame's length, and
\* the five of the ten closes
ComputePeriods == {2, MaxRows, 5}

InitCompute ==
    /\ NoRegistry
    /\ indicator \in {NewInstance(c) : c \in BuiltinClasses}
    /\ NewDataManager
    /\ requests = NoRequests
    /\ last = Idle

\* indicator.validate_data(df)
ValidateData(df) ==
    /\ last = Idle
    /\ last' = [op |-> "validate_data", df |-> df, result |-> validate_data(df)]
    /\ UNCHANGED << registry, indicator, data, requests >>

\* indicator.calculate(df)
Calculate(df) ==
    /\ last = Idle
    /\ last' = [op |-> "calculate", df |-> df,
                parameters |-> get_parameters(indicator),
                result |-> calculate(indicator, df)]
    /\ UNCHANGED << registry, indicator, data, requests >>

NextCompute ==
    \/ last = Idle /\ \E period \in ComputePeriods :
                          SetParameters(<< [name |-> "period", value |-> IntV(period)] >>)
    \/ last = Idle /\ \E df \in ComputeFrames : ValidateData(df)
    \/ last = Idle /\ \E df \in ComputeFrames : Calculate(df)
    \/ Return

SpecCompute == InitCompute /\ [][NextCompute]_vars

\* ------------------------------------------------------------------------
\* A PluginManager whose class table is assigned by its holder
\* (tests/test_plugins.py: PluginManager.__new__, then pm.loaded_plugins =
\* {...}, pm.plugin_instances = {}, pm.plugin_metadata = {})
\* ------------------------------------------------------------------------
\* the names the tables are assigned under, and the name that is looked up
\* and never assigned
AssignedNames == {"Test Indicator", "Another Indicator"}

LookupNames == AssignedNames \cup {"Nonexistent"}

\* the classes assigned: the test's class and a built-in one
AssignedClasses == {"TestIndicator", "SimpleMovingAverage"}

\* the class tables assigned: any of the names, each under any of the classes
AssignedTables == UNION {[names -> AssignedClasses] : names \in SUBSET AssignedNames}

\* pm = PluginManager.__new__(PluginManager); pm.loaded_plugins = table;
\* pm.plugin_instances = {}; pm.plugin_metadata = {}
InitTables ==
    /\ plugin_files = [m \in ModuleNames |-> Absent]
    /\ loaded_plugins \in AssignedTables
    /\ plugin_instances = EmptyDict
    /\ plugin_metadata = EmptyDict
    /\ plugin_module_map = EmptyDict
    /\ indicator = NoneV
    /\ NewDataManager
    /\ requests = NoRequests
    /\ last = Idle

NextTables ==
    \/ GetAvailablePlugins
    \/ \E n \in LookupNames : GetPlugin(n)
    \/ \E n \in LookupNames : GetPluginClass(n)
    \/ \E n \in LookupNames : GetPluginMetadata(n)
    \/ GetPluginCount
    \/ \E n \in LookupNames : IsPluginLoaded(n)
    \/ Return

SpecTables == InitTables /\ [][NextTables]_vars

\* ========================================================================
\* Properties
\* ========================================================================
\* an entry of a batch that validation must reject: its name is not a
\* parameter of the indicator, or its definition rejects its value
EntryInvalid(parameters, e) ==
    \/ e.name \notin ParamNames(parameters)
    \/ ~validate(parameters[ParamIndex(parameters, e.name)], e.value).ok

InvalidEntries(parameters, params) ==
    {i \in DOMAIN params : EntryInvalid(parameters, params[i])}

\* C2: set_parameters is atomic: a batch with at least one invalid entry is
\* refused and get_parameters() afterwards returns what it returned before
\* the call, also for the names whose entries were valid
C2_SetParametersAtomic ==
    (last.op = "set_parameters"
        /\ InvalidEntries(indicator.parameters, last.params) # {})
    => (~last.ok /\ get_parameters(indicator) = last.before)

\* a refused batch that held a valid entry which would have changed a value
C2_Witness ==
    /\ last.op = "set_parameters"
    /\ ~last.ok
    /\ \E i \in DOMAIN last.params :
           /\ ~EntryInvalid(indicator.parameters, last.params[i])
           /\ last.params[i].value # last.before[last.params[i].name]

\* the previous parameter map with the batch's entries overriding it
Merged(before, params) ==
    [n \in DOMAIN before |->
        IF n \in BatchNames(params) THEN BatchValue(params, n) ELSE before[n]]

\* C3: a batch whose values each pass their own definition is accepted, and
\* get_parameters() afterwards is the previous map overridden by the batch
C3_SetParametersRoundTrip ==
    (last.op = "set_parameters"
        /\ InvalidEntries(indicator.parameters, last.params) = {})
    => (last.ok /\ get_parameters(indicator) = Merged(last.before, last.params))

\* an accepted batch of two entries that changed both values
C3_Witness ==
    /\ last.op = "set_parameters"
    /\ last.ok
    /\ Len(last.params) = 2
    /\ \A i \in DOMAIN last.params :
           last.params[i].value # last.before[last.params[i].name]
    /\ get_parameters(indicator) # last.before

\* M <= value <= X
InClosedInterval(pd, value) ==
    /\ ~IsNaN(value)
    /\ Num(pd.min_value) <= Num(value)
    /\ Num(value) <= Num(pd.max_value)

\* the value is of the type the numeric definition asks for
RightNumericType(pd, value) ==
    IF pd.type = "int" THEN IsInstanceInt(value) ELSE IsInstanceIntOrFloat(value)

\* C4: a numeric definition with minimum M and maximum X accepts a value of
\* the right type exactly when M <= value <= X, and a rejection carries a
\* message
C4_ValidateClosedInterval ==
    (last.op = "validate"
        /\ last.pd.type \in {"int", "float"}
        /\ last.pd.min_value # NoneV /\ last.pd.max_value # NoneV
        /\ RightNumericType(last.pd, last.value))
    => /\ last.result.ok <=> InClosedInterval(last.pd, last.value)
       /\ ~last.result.ok => last.result.m # ""

\* C5: validate_parameters refuses a batch holding an unknown name and
\* returns one message per violating entry, for every violating entry
C5_ValidateParametersCollectsAll ==
    last.op = "validate_parameters"
    => LET bad == InvalidEntries(indicator.parameters, last.params)
       IN  /\ last.result.ok <=> bad = {}
           /\ Len(last.result.errors) = Cardinality(bad)
           /\ \A i \in bad :
                  \E j \in DOMAIN last.result.errors :
                      last.result.errors[j].param = last.params[i].name
           /\ \A i \in DOMAIN last.params :
                  last.params[i].name \notin ParamNames(indicator.parameters)
                  => \E j \in DOMAIN last.result.errors :
                         /\ last.result.errors[j].param = last.params[i].name
                         /\ last.result.errors[j].m = "Unknown parameter"

\* a batch with an unknown name and an out-of-range value: two messages
C5_Witness ==
    /\ last.op = "validate_parameters"
    /\ Len(last.result.errors) = 2
    /\ \E j \in DOMAIN last.result.errors : last.result.errors[j].m = "Unknown parameter"
    /\ \E j \in DOMAIN last.result.errors : last.result.errors[j].m = "is above maximum"

\* a class that load_plugin registers in full: it passes _validate_plugin
\* and its metadata can be taken
Loadable(c) == _validate_plugin(c).success /\ ~get_metadata_raises(c)

\* the classes a module file defines itself
DefinedIn(file) == {file.attrs[i].cls : i \in {j \in DOMAIN file.attrs : ~file.attrs[j].imported}}

\* a module file that executes and defines indicator classes, all loadable
SoundModule(file) ==
    /\ file.kind = "module"
    /\ DefinedIn(file) # {}
    /\ \A c \in DefinedIn(file) : Loadable(c)

\* C1: load_all_plugins returns an entry for every discovered module and
\* raises nothing, and every sound module is reported loaded with its classes
\* registered, whatever the other modules of the directory do
C1_LoadAllIsolatesFailures ==
    last.op = "load_all_plugins"
    => /\ ~last.raised
       /\ DOMAIN last.results = discover_plugins(plugin_files)
       /\ \A m \in discover_plugins(plugin_files) :
              SoundModule(plugin_files[m])
              => /\ last.results[m].success
                 /\ \A c \in DefinedIn(plugin_files[m]) :
                        /\ is_plugin_loaded(Reg, getattr(c, "name"))
                        /\ get_plugin(Reg, getattr(c, "name")) # NoneV

\* a module that fails to execute was loaded before a sound one
C1_Witness ==
    /\ last.op = "load_all_plugins"
    /\ Len(last.order) = 2
    /\ plugin_files[last.order[1]].kind = "broken"
    /\ ~last.results[last.order[1]].success
    /\ SoundModule(plugin_files[last.order[2]])
    /\ last.results[last.order[2]].success

\* the class body defines the four metadata fields, none empty, and the
\* class honours the rest of the contract
WellFormedType(c) ==
    /\ \A a \in DOMAIN BaseAttrs : a \in DOMAIN Class(c).attrs /\ Class(c).attrs[a] # ""
    /\ Class(c).implemented /\ Class(c).paramsIsDict
    /\ Class(c).plotsIsList /\ Class(c).plotsArePlotConfigs

\* the class body leaves a required metadata field out or empty
LacksMetadataField(c) ==
    \E a \in DOMAIN BaseAttrs : a \notin DOMAIN Class(c).attrs \/ Class(c).attrs[a] = ""

\* C6: load_all_plugins on a fresh registry over one well-formed module and
\* one module whose class lacks a required metadata field reports one
\* success and one failure, and only the well-formed name is listed
C6_RegistryIsolation ==
    (/\ last.op = "load_all_plugins"
     /\ last.before = EmptyDict
     /\ \E good, bad \in discover_plugins(plugin_files) :
            /\ discover_plugins(plugin_files) = {good, bad}
            /\ good # bad
            /\ Len(plugin_files[good].attrs) = 1 /\ Len(plugin_files[bad].attrs) = 1
            /\ \A c \in DefinedIn(plugin_files[good]) : WellFormedType(c)
            /\ \A c \in DefinedIn(plugin_files[bad]) : LacksMetadataField(c)
            /\ DefinedIn(plugin_files[good]) # {} /\ DefinedIn(plugin_files[bad]) # {})
    => \E good, bad \in discover_plugins(plugin_files) :
           /\ \A c \in DefinedIn(plugin_files[good]) : WellFormedType(c)
           /\ \A c \in DefinedIn(plugin_files[bad]) : LacksMetadataField(c)
           /\ last.results[good].success
           /\ ~last.results[bad].success
           /\ get_available_plugins(Reg) =
                  {getattr(c, "name") : c \in DefinedIn(plugin_files[good])}

\* the modules and classes of a load call, in the order they are visited
VisitedModules == IF last.op = "load_plugin" THEN << last.module_name >> ELSE last.order

\* class c of the j-th visited module is the last class visited under its
\* display name
LastUnderItsName(j, c) ==
    /\ \A k \in DOMAIN VisitedModules :
           k > j => \A d \in DefinedIn(plugin_files[VisitedModules[k]]) :
                        getattr(d, "name") # getattr(c, "name")
    /\ \A x, y \in DOMAIN plugin_files[VisitedModules[j]].attrs :
           (plugin_files[VisitedModules[j]].attrs[x].cls = c /\ y > x)
           => getattr(plugin_files[VisitedModules[j]].attrs[y].cls, "name")
                  # getattr(c, "name")

\* C8: when a load visits a valid class whose display name is already
\* registered for another class, the load succeeds and the class table, the
\* instance and the metadata snapshot of that name are those of the class
\* visited last; the name is counted once
C8_LaterReplacesEarlier ==
    (/\ last.op \in {"load_plugin", "load_all_plugins"}
     /\ ~last.raised
     /\ \A j \in DOMAIN VisitedModules : SoundModule(plugin_files[VisitedModules[j]]))
    => \A j \in DOMAIN VisitedModules :
           \A c \in DefinedIn(plugin_files[VisitedModules[j]]) :
               LastUnderItsName(j, c)
               => LET n == getattr(c, "name")
                  IN  /\ IF last.op = "load_plugin" THEN last.result.success
                         ELSE last.results[VisitedModules[j]].success
                      /\ get_plugin_class(Reg, n) = c
                      /\ get_plugin(Reg, n) = NewInstance(c)
                      /\ get_plugin_metadata(Reg, n) = get_metadata(NewInstance(c))
                      /\ plugin_module_map[n] = VisitedModules[j]
                      /\ get_plugin_count(Reg) =
                             Cardinality(DOMAIN last.before
                                 \cup UNION {{getattr(d, "name") :
                                                 d \in DefinedIn(plugin_files[VisitedModules[k]])} :
                                             k \in DOMAIN VisitedModules})

\* a load replaced the class registered under a name by another class
C8_Witness ==
    /\ last.op \in {"load_plugin", "load_all_plugins"}
    /\ \A j \in DOMAIN VisitedModules : SoundModule(plugin_files[VisitedModules[j]])
    /\ \E n \in DOMAIN last.before :
           /\ last.before[n] # loaded_plugins[n]
           /\ plugin_metadata[n].version # getattr(last.before[n], "version")
           /\ get_plugin_count(Reg) = Cardinality(DOMAIN last.before)

\* C10: after reload_plugins the tables are those load_all_plugins builds
\* from empty tables over the directory as it is now: every entry of every
\* table belongs to a class a discovered module defines and that passes
\* validation now
C10_ReloadRebuilds ==
    last.op = "reload_plugins"
    => /\ Reg = load_all_plugins(EmptyRegistry, plugin_files, last.order).reg
       /\ \A n \in DOMAIN loaded_plugins :
              \E m \in discover_plugins(plugin_files) :
                  \E c \in DefinedIn(plugin_files[m]) :
                      /\ loaded_plugins[n] = c
                      /\ getattr(c, "name") = n
                      /\ _validate_plugin(c).success
                      /\ plugin_module_map[n] = m
       /\ DOMAIN plugin_instances \subseteq DOMAIN loaded_plugins
       /\ DOMAIN plugin_metadata \subseteq DOMAIN loaded_plugins
       /\ DOMAIN plugin_module_map \subseteq DOMAIN loaded_plugins

\* a reload dropped a name that was registered before it
C10_Witness ==
    /\ last.op = "reload_plugins"
    /\ \E n \in DOMAIN last.before : n \notin DOMAIN loaded_plugins
    /\ loaded_plugins # EmptyDict

\* C7: a chart request computes every indicator it carries no override for
\* with the default values of the indicator's parameter definitions,
\* whatever earlier requests overrode
C7_OverridesArePerRequest ==
    (last.op = "create_candlestick_chart" /\ last.raised = "None")
    => \A i \in DOMAIN last.figure.computed :
           LET e == last.figure.computed[i]
           IN  e.indicator \notin DOMAIN last.indicator_params
               => e.parameters = get_parameters(NewInstance(loaded_plugins[e.indicator]))

\* C9: a name that is registered is still registered after any step other
\* than a reload: is_plugin_loaded holds of it and get_plugin returns an
\* instance for it
C9_RegisteredNamesStay ==
    [][last'.op # "reload_plugins"
           => \A n \in DOMAIN loaded_plugins :
                  n \in DOMAIN loaded_plugins' /\ n \in DOMAIN plugin_instances']_vars

\* a load of a module that no longer executes failed on tables that held
\* names registered from that module, and the names are still there
C9_Witness ==
    /\ last.op = "load_plugin"
    /\ ~last.result.success
    /\ \E n \in DOMAIN last.before :
           /\ plugin_module_map[n] = last.module_name
           /\ is_plugin_loaded(Reg, n)
           /\ get_plugin(Reg, n) # NoneV

\* C11: get_plugin(name) returns an instance of the class registered under
\* name for every name in the class table loaded_plugins, and None for a
\* name that is not in it
C11_GetPluginOfRegisteredName ==
    last.op = "get_plugin" =>
        IF last.plugin_name \in DOMAIN loaded_plugins
            THEN /\ last.result # NoneV
                 /\ last.result.cls = loaded_plugins[last.plugin_name]
            ELSE last.result = NoneV

\* a chart request that got as far as the indicators: its time frame is one
\* of the three and the ticker has rows
RequestComposes ==
    /\ last.op = "create_candlestick_chart"
    /\ last.timeframe \in {"daily", "weekly", "monthly"}
    /\ DailyRows(last.ticker) > 0

\* the selected names that are not registered
UnregisteredSelected ==
    {i \in DOMAIN last.indicators : last.indicators[i] \notin DOMAIN loaded_plugins}

\* C12: a composition request whose indicator list contains a name that is
\* not registered fails with KeyError; it never returns a chart that omits
\* the unknown indicator
C12_UnregisteredNameIsKeyError ==
    (RequestComposes /\ UnregisteredSelected # {}) => last.raised = "KeyError"

\* the positions of the selected indicators that are registered and whose
\* overrides in the request validate_parameters rejects
OverridesRejected ==
    {i \in DOMAIN last.indicators :
        /\ last.indicators[i] \in DOMAIN last.indicator_params
        /\ last.indicators[i] \in DOMAIN plugin_instances
        /\ ~validate_parameters(plugin_instances[last.indicators[i]].parameters,
                                last.indicator_params[last.indicators[i]]).ok}

\* the first of a non-empty set of positions
First(positions) == CHOOSE i \in positions : \A j \in positions : i <= j

\* the names of the indicators the request calculated
CalculatedNames == {last.calculated[k].indicator : k \in DOMAIN last.calculated}

\* C13: when the overrides of a selected indicator fail validation (every
\* selected name being registered), the composition aborts with a
\* ValueError whose message names that indicator, and neither it nor any
\* indicator after it in the list is calculated
C13_InvalidOverridesAbort ==
    (RequestComposes /\ UnregisteredSelected = {} /\ OverridesRejected # {}) =>
        /\ last.raised = "ValueError"
        /\ last.about = last.indicators[First(OverridesRejected)]
        /\ \A j \in DOMAIN last.indicators :
               j >= First(OverridesRejected) => last.indicators[j] \notin CalculatedNames

\* what the code keeps of C13: such a request returns no figure, and neither
\* the indicator whose overrides are rejected nor a later one is calculated
C13_NothingCalculatedFromTheRejected ==
    (RequestComposes /\ OverridesRejected # {}) =>
        /\ last.raised # "None"
        /\ \A j \in DOMAIN last.indicators :
               j >= First(OverridesRejected) => last.indicators[j] \notin CalculatedNames

\* the column a built-in moving average or RSI writes, as its class's
\* docstring names it: SMA_{period}, EMA_{period}, RSI_{period}
OutputColumn(cls, parameters) ==
    Column(CASE cls = "SimpleMovingAverage" -> "SMA"
             [] cls = "ExponentialMovingAverage" -> "EMA"
             [] cls = "RelativeStrengthIndex" -> "RSI",
           parameters["period"].v)

\* the column the k-th calculation of the request wrote
Wrote(k) ==
    OutputColumn(loaded_plugins[last.calculated[k].indicator],
                 last.calculated[k].parameters)

\* the names the first k calculations of the request wrote, in the order of
\* their first writing
RECURSIVE WrittenBefore(_)
WrittenBefore(k) ==
    IF k = 0 THEN << >>
    ELSE IF \E i \in DOMAIN WrittenBefore(k - 1) : WrittenBefore(k - 1)[i] = Wrote(k)
        THEN WrittenBefore(k - 1)
    ELSE Append(WrittenBefore(k - 1), Wrote(k))

\* a chart request that returned a figure
RequestSucceeded == last.op = "create_candlestick_chart" /\ last.raised = "None"

\* C14: within one composition request the indicators are calculated in the
\* order of the caller's list, each on the frame that holds the columns of
\* all the calculations before it; when two of them write the same column
\* name, the frame returned holds the column written by the later one
C14_ListOrderLastWriterWins ==
    /\ last.op = "create_candlestick_chart" =>
           /\ Len(last.calculated) <= Len(last.indicators)
           /\ \A k \in DOMAIN last.calculated :
                  /\ last.calculated[k].indicator = last.indicators[k]
                  /\ last.calculated[k].received = WrittenBefore(k - 1)
    /\ RequestSucceeded =>
        /\ Len(last.calculated) = Len(last.indicators)
        /\ column_names(last.df_with_indicators) = WrittenBefore(Len(last.calculated))
        /\ \A c \in DOMAIN last.df_with_indicators.columns :
               \E k \in DOMAIN last.calculated :
                   /\ Wrote(k) = column_names(last.df_with_indicators)[c]
                   /\ \A j \in DOMAIN last.calculated : j > k => Wrote(j) # Wrote(k)
                   /\ last.df_with_indicators.columns[c].inputs
                          = last.calculated[k].received

\* a request whose two calculations wrote the same column, the second on a
\* frame that held the first one's
C14_Witness ==
    /\ RequestSucceeded
    /\ Len(last.calculated) = 2
    /\ Wrote(1) = Wrote(2)
    /\ last.calculated[2].received = << Wrote(1) >>
    /\ Len(last.df_with_indicators.columns) = 1

\* an auxiliary pane is needed: the first plot config of some selected,
\* registered indicator is drawn on the secondary axis
NeedsAuxiliary ==
    \E i \in DOMAIN last.indicators :
        /\ last.indicators[i] \in DOMAIN plugin_instances
        /\ get_plot_configs(plugin_instances[last.indicators[i]]) # << >>
        /\ get_plot_configs(plugin_instances[last.indicators[i]])[1].yaxis = "y2"

\* the sum of a sequence of numbers
RECURSIVE SumOf(_)
SumOf(seq) == IF seq = << >> THEN 0 ELSE Head(seq) + SumOf(Tail(seq))

\* C15: the figure has 1 + (volume shown) + (auxiliary pane needed) rows,
\* price first, volume second when shown, the auxiliary pane last; the
\* heights are 100 for one row, 70/30 for two and 50/25/25 for three, one
\* per row, and they sum to 100
C15_LayoutPlan ==
    RequestSucceeded =>
        LET figure == last.figure
            panes == 1 + (IF last.show_volume THEN 1 ELSE 0)
                       + (IF NeedsAuxiliary THEN 1 ELSE 0)
        IN  /\ figure.rows = panes
            /\ figure.row_heights = CASE panes = 1 -> << 100 >>
                                      [] panes = 2 -> << 70, 30 >>
                                      [] panes = 3 -> << 50, 25, 25 >>
            /\ Len(figure.row_heights) = figure.rows
            /\ SumOf(figure.row_heights) = 100
            /\ \A t \in DOMAIN figure.traces :
                   /\ figure.traces[t].row \in 1..figure.rows
                   /\ figure.traces[t].type = "candlestick" => figure.traces[t].row = 1
                   /\ figure.traces[t].prefix = "Volume" => figure.traces[t].row = 2
                   /\ figure.traces[t].prefix = "RSI" => figure.traces[t].row = panes
            /\ last.show_volume <=> \E t \in DOMAIN figure.traces :
                                        figure.traces[t].prefix = "Volume"

\* a figure of three rows: price, volume and the RSI drawn in the third
C15_Witness ==
    /\ RequestSucceeded
    /\ last.figure.rows = 3
    /\ last.figure.row_heights = << 50, 25, 25 >>
    /\ \E t \in DOMAIN last.figure.traces :
           last.figure.traces[t].prefix = "RSI" /\ last.figure.traces[t].row = 3

\* a frame that meets the structural invariants of a bar series: it has
\* rows, no required column is absent, no open, high, low or close is
\* missing, and no row has its high below its low
StructurallyValid(df) ==
    /\ df.rows > 0
    /\ df.absent = {}
    /\ df.nans = {}
    /\ \A i \in DOMAIN df.close : ~IsNaN(df.close[i])
    /\ df.inverted = 0

\* the sum of the window values of a column that end at position i
RECURSIVE TrailingSum(_, _, _)
TrailingSum(values, i, window) ==
    IF window = 0 THEN 0 ELSE values[i].v + TrailingSum(values, i - 1, window - 1)

\* a calculate call on an instance of the class
Calculated(cls) == last.op = "calculate" /\ indicator.cls = cls

\* the column of that name in the frame a calculate call returned
ReturnedColumn(name) ==
    LET columns == last.result.value.columns
    IN  columns[CHOOSE c \in DOMAIN columns : Column(columns[c].prefix, columns[c].n) = name]

\* C16: on a structurally valid series of L rows and with a period N <= L
\* the Simple Moving Average's calculate succeeds, and its column is
\* undefined at the first N - 1 rows and the mean of the trailing N closes
\* at every row from the N-th on (closes 100..109 and N = 5: 102 at the
\* fifth row, 107 at the tenth)
C16_SmaOfValidSeries ==
    (/\ Calculated("SimpleMovingAverage")
     /\ StructurallyValid(last.df)
     /\ last.parameters["period"].v <= last.df.rows) =>
        LET N == last.parameters["period"].v
        IN  /\ last.result.raised = "None"
            /\ \E c \in DOMAIN last.result.value.columns :
                   last.result.value.columns[c].prefix = "SMA"
                       /\ last.result.value.columns[c].n = N
            /\ LET sma == ReturnedColumn(Column("SMA", N)).values
               IN  /\ Len(sma) = last.df.rows
                   /\ \A i \in 1..(N - 1) : IsNaN(sma[i])
                   /\ \A i \in N..last.df.rows :
                          sma[i] = Mean(TrailingSum(last.df.close, i, N), N)
                   /\ (last.df.close = TenCloses /\ N = 5) =>
                          /\ sma[5] = Mean(5 * 1020, 5)
                          /\ sma[10] = Mean(5 * 1070, 5)

\* what the window arithmetic gives where the method gets to it: on a
\* frame whose only defect is a row with high < low the column is as C16
\* says
C16_RollingMeanWhereComputed ==
    (Calculated("SimpleMovingAverage") /\ last.result.raised = "None"
        /\ \A i \in DOMAIN last.df.close : ~IsNaN(last.df.close[i])) =>
        LET N == last.parameters["period"].v
            sma == ReturnedColumn(Column("SMA", N)).values
        IN  /\ \A i \in 1..(N - 1) : IsNaN(sma[i])
            /\ \A i \in N..last.df.rows :
                   sma[i] = Mean(TrailingSum(last.df.close, i, N), N)

\* the violations of the structural invariants a frame has; of a frame
\* without rows or without columns only its emptiness is counted
Violations(df) ==
    IF empty(df) THEN {DataError("DataFrame is empty", NoneV)}
    ELSE {DataError("Missing columns", df.absent) : x \in {1} \cap {n \in {1} : df.absent # {}}}
         \cup {DataError("contains NaN values", col) : col \in df.nans}
         \cup {DataError("contains NaN values", "close") :
                   x \in {i \in DOMAIN df.close : IsNaN(df.close[i])}}
         \cup {DataError("rows have high < low", df.inverted) :
                   x \in {n \in {1} : df.inverted > 0}}

\* C17: calculate of every built-in indicator on a series that violates a
\* structural invariant raises the validation error, whose message lists
\* every violation; it never returns a result
C17_InvalidSeriesIsRejected ==
    (last.op = "calculate" /\ ~StructurallyValid(last.df)) =>
        /\ last.result.raised = "ValueError"
        /\ last.result.message.text = "Data validation failed"
        /\ \A v \in Violations(last.df) :
               \E e \in DOMAIN last.result.message.errors :
                   last.result.message.errors[e] = v

\* the window lengths of an instance: its period, or its channel, average
\* and money-flow lengths
Windows(parameters) ==
    {parameters[n].v : n \in DOMAIN parameters \cap
                              {"period", "channel_length", "average_length", "mfi_length"}}

\* C18: calculate of every built-in indicator on a (structurally valid)
\* series with fewer rows than a window length of the instance raises the
\* validation error that names the period and the data length; it returns
\* no result
C18_TooFewRowsIsRejected ==
    (/\ last.op = "calculate"
     /\ StructurallyValid(last.df)
     /\ \E w \in Windows(last.parameters) : last.df.rows < w) =>
        /\ last.result.raised = "ValueError"
        /\ last.result.message.text = "Period cannot be greater than data length"
        /\ last.result.message.period \in Windows(last.parameters)
        /\ last.result.message.length = last.df.rows

\* the columns the class's calculate reads
InputColumns(cls) ==
    CASE cls = "MarketCipherA" -> {"high", "low", "close"}
      [] cls = "MarketCipherB" -> {"high", "low", "close", "volume"}
      [] OTHER -> {"close"}

\* C19: calculate of every built-in indicator on a series that has rows
\* and lacks a column the indicator reads raises KeyError naming an absent
\* column, and no other kind of error
C19_MissingColumnIsKeyError ==
    (/\ last.op = "calculate"
     /\ last.df.rows > 0
     /\ InputColumns(indicator.cls) \cap last.df.absent # {}) =>
        /\ last.result.raised = "KeyError"
        /\ last.result.message.column \in last.df.absent

\* ------------------------------------------------------------------------
\* The cache of the data manager
\* ------------------------------------------------------------------------
\* C20: once get_ohlcv_data has succeeded for a ticker, the ticker is cached
\* and every later call for it returns data equal to the first result,
\* whatever the caller wrote into the frames it was returned, until
\* clear_cache; a call that fails adds nothing to the cache; after
\* clear_cache the cache is empty.
C20_CacheServesTheFirstResult ==
    /\ (last.op = "get_ohlcv_data" /\ last.raised = "None") =>
           /\ CacheKey(last.ticker) \in DOMAIN _cache
           /\ frames[last.result] = df1[last.ticker].content
    /\ (last.op = "get_ohlcv_data" /\ last.raised # "None") =>
           Contents(frames, _cache) = last.before
    /\ last.op = "clear_cache" => _cache = EmptyDict

\* a later call returned another frame after the caller had written into the
\* first one it kept, and after the database had grown
C20_Witness ==
    /\ last.op = "get_ohlcv_data"
    /\ last.raised = "None"
    /\ last.result # df1[last.ticker].df
    /\ frames[df1[last.ticker].df] # df1[last.ticker].content
    /\ ohlc_data[last.ticker] # frames[last.result].rows

\* a call failed while another ticker was cached
C20_WitnessFailed ==
    /\ last.op = "get_ohlcv_data"
    /\ last.raised = "ValueError"
    /\ _cache # EmptyDict

\* ------------------------------------------------------------------------
\* The registry tables together
\* ------------------------------------------------------------------------
\* C21: after any sequence of load_plugin, load_all_plugins and
\* reload_plugins calls the class table, the instance table and the metadata
\* table hold the same names, so that is_plugin_loaded, get_plugin and
\* get_plugin_metadata agree on every name
C21_TablesHoldTheSameNames ==
    /\ DOMAIN loaded_plugins = DOMAIN plugin_instances
    /\ DOMAIN plugin_instances = DOMAIN plugin_metadata
    /\ \A c \in ClassIds :
           /\ is_plugin_loaded(Reg, getattr(c, "name"))
                  <=> get_plugin(Reg, getattr(c, "name")) # NoneV
           /\ is_plugin_loaded(Reg, getattr(c, "name"))
                  <=> get_plugin_metadata(Reg, getattr(c, "name")) # NoneV

\* the class table and the instance table hold the same names, and the
\* metadata table holds no other name
C21_MetadataOfRegisteredNamesOnly ==
    /\ DOMAIN loaded_plugins = DOMAIN plugin_instances
    /\ DOMAIN plugin_metadata \subseteq DOMAIN loaded_plugins
    /\ DOMAIN plugin_module_map = DOMAIN loaded_plugins

\* ------------------------------------------------------------------------
\* The chart engine over the six built-in indicators and a user's plugin,
\* loaded as the application loads them when a session starts
\* ------------------------------------------------------------------------
\* the plugins directory: the built-in classes, in the order dir() lists
\* them, and the user's plugin
LayoutFiles ==
    [m \in ModuleNames |->
        IF m = "mod_a"
            THEN Module(<< Defined("BollingerBands"), Defined("ExponentialMovingAverage"),
                           Defined("MarketCipherA"), Defined("MarketCipherB"),
                           Defined("RelativeStrengthIndex"),
                           Defined("SimpleMovingAverage") >>)
        ELSE IF m = "mod_b" THEN Module(<< Defined("PriceWithOscillator") >>)
        ELSE Module(<< >>)]

\* the display names a chart request selects from
LayoutNames ==
    {getattr(c, "name") : c \in BuiltinClasses \cup {"PriceWithOscillator"}}

LayoutLists == UNION {[1..n -> LayoutNames] : n \in 0..MaxIndicators}

\* overrides that shorten the windows of the selected indicators so that
\* they fit a frame of two rows
ShortWindows(names) ==
    [n \in {m \in names : m \notin {"Market Cipher A", "Price With Oscillator"}} |->
        IF n = "Market Cipher B" THEN << [name |-> "mfi_length", value |-> IntV(20)] >>
        ELSE << [name |-> "period", value |-> IntV(2)] >>]

\* the indicator_params a request may carry: none, or the short windows
LayoutParams(indicators) ==
    {EmptyDict, ShortWindows({indicators[i] : i \in DOMAIN indicators})}

\* initialize_session: DataManager, PluginManager and load_all_plugins
InitLayout ==
    /\ plugin_files = LayoutFiles
    /\ \E loaded \in {load_all_plugins(EmptyRegistry, LayoutFiles,
                                        << "mod_a", "mod_b" >>).reg} :
           /\ loaded_plugins = loaded.loaded_plugins
           /\ plugin_instances = loaded.plugin_instances
           /\ plugin_metadata = loaded.plugin_metadata
           /\ plugin_module_map = loaded.plugin_module_map
    /\ indicator = NoneV
    /\ NewDataManager
    /\ requests = NoRequests
    /\ last = Idle

NextLayout ==
    \/ last = Idle
           /\ \E timeframe \in {"daily", "weekly", "monthly"},
                 indicators \in LayoutLists, show_volume \in BOOLEAN :
                  \E indicator_params \in LayoutParams(indicators) :
                      CreateCandlestickChart("AAPL", timeframe, indicators,
                                             indicator_params, show_volume)
    \/ Return

SpecLayout == InitLayout /\ [][NextLayout]_vars

\* the plot configs of the k-th selected indicator, as the request left them
ConfigsOf(k) == get_plot_configs(plugin_instances[last.indicators[k]])

\* the rows of the figure in which a trace of a plot config is drawn
RowsOf(config) ==
    {last.figure.traces[j].row :
        j \in {i \in DOMAIN last.figure.traces :
                  /\ last.figure.traces[i].prefix = config.prefix
                  /\ last.figure.traces[i].n = config.n}}

\* the figure has a pane besides the price pane and the volume pane
HasAuxiliaryPane == last.figure.rows > 1 + (IF last.show_volume THEN 1 ELSE 0)

\* C22: the figure has an auxiliary pane exactly when the first plot config
\* of some selected, registered indicator is on the secondary axis; the
\* configs after the first do not count
C22_AuxiliaryPaneByFirstConfig ==
    RequestSucceeded =>
        (HasAuxiliaryPane <=>
            \E k \in DOMAIN last.indicators :
                /\ is_plugin_loaded(Reg, last.indicators[k])
                /\ ConfigsOf(k) # << >>
                /\ ConfigsOf(k)[1].yaxis = "y2")

\* a figure without auxiliary pane for an indicator whose second plot config
\* is on the secondary axis
C22_Witness ==
    /\ RequestSucceeded
    /\ ~HasAuxiliaryPane
    /\ \E k \in DOMAIN last.indicators :
           \E i \in DOMAIN ConfigsOf(k) : i > 1 /\ ConfigsOf(k)[i].yaxis = "y2"

\* C23: every output drawn for a plot config on the primary axis is in the
\* price pane; every output drawn for a plot config on the secondary axis is
\* in the auxiliary pane when the figure has one, and is not drawn when it
\* has none
C23_OutputsRoutedByAxis ==
    RequestSucceeded =>
        \A k \in DOMAIN last.indicators :
            \A i \in DOMAIN ConfigsOf(k) :
                IF ConfigsOf(k)[i].yaxis = "y2"
                    THEN IF HasAuxiliaryPane
                             THEN RowsOf(ConfigsOf(k)[i]) \subseteq {last.figure.rows}
                         ELSE RowsOf(ConfigsOf(k)[i]) = {}
                ELSE RowsOf(ConfigsOf(k)[i]) \subseteq {1}

\* an output on the secondary axis is never drawn in the volume pane, and it
\* is drawn in the auxiliary pane when the figure has one
C23_NeverInTheVolumePane ==
    RequestSucceeded =>
        \A k \in DOMAIN last.indicators :
            \A i \in DOMAIN ConfigsOf(k) :
                /\ ConfigsOf(k)[i].yaxis # "y2" => RowsOf(ConfigsOf(k)[i]) \subseteq {1}
                /\ ConfigsOf(k)[i].yaxis = "y2" =>
                       RowsOf(ConfigsOf(k)[i]) \subseteq
                           {IF HasAuxiliaryPane THEN last.figure.rows ELSE 1}

\* the column a built-in's calculate assigns for one of its plot configs:
\* f"SMA_{period}" for "SMA({period})", f"BB_Upper_{period}" for
\* "BB Upper({period})", and the config's own name for the Cipher columns
ColumnOf(config) ==
    Column(CASE config.prefix = "BB Upper" -> "BB_Upper"
             [] config.prefix = "BB Middle" -> "BB_Middle"
             [] config.prefix = "BB Lower" -> "BB_Lower"
             [] OTHER -> config.prefix,
           config.n)

\* the column of that name in the frame the request computed has a value
\* that is not NaN
HasValues(name) ==
    \E j \in DOMAIN last.df_with_indicators.columns :
        /\ Column(last.df_with_indicators.columns[j].prefix,
                  last.df_with_indicators.columns[j].n) = name
        /\ ~isna_all(last.df_with_indicators.columns[j])

\* C24: in a request that returned a figure, every plot config of a selected
\* built-in indicator whose column was computed with values is drawn, in
\* exactly one pane
C24_EveryOutputIsDrawn ==
    RequestSucceeded =>
        \A k \in DOMAIN last.indicators :
            plugin_instances[last.indicators[k]].cls \in BuiltinClasses =>
                \A i \in DOMAIN ConfigsOf(k) :
                    HasValues(ColumnOf(ConfigsOf(k)[i])) =>
                        Cardinality(RowsOf(ConfigsOf(k)[i])) = 1

\* ------------------------------------------------------------------------
\* validate on parameter definitions of every type
\* ------------------------------------------------------------------------
\* the definitions validate is called on: those of the test suite (an int
\* without bounds, an int and a float with bounds, a bool, a choice), an
\* int of the built-ins whose range holds 0 and 1, a str, and a choice
\* that leaves choices at its default, None
Definitions ==
    {ParameterDefinition("period", "int", IntV(20), NoneV, NoneV, {}),
     IntParam("period", 20, 2, 100),
     IntParam("oversold", 30, 0, 50),
     FloatParam("threshold", 500, 0, 1000),
     ParameterDefinition("show_signal", "bool", BoolV(TRUE), NoneV, NoneV, {}),
     ParameterDefinition("label", "str", StrV("close"), NoneV, NoneV, {}),
     ParameterDefinition("ma_type", "choice", StrV("sma"), NoneV, NoneV,
                         {StrV("sma"), StrV("ema"), StrV("dema")}),
     ParameterDefinition("ma_type", "choice", StrV("sma"), NoneV, NoneV, {})}

\* the values passed: ints, floats, bools, strings, None and NaN
Values ==
    {IntV(0), IntV(1), IntV(20), IntV(150), FloatV(5), FloatV(10), FloatV(200),
     BoolV(TRUE), BoolV(FALSE), StrV("20"), StrV("ema"), StrV("invalid"),
     NoneV, NaN}

InitValidate ==
    /\ NoRegistry
    /\ indicator = NoneV
    /\ NewDataManager
    /\ requests = NoRequests
    /\ last = Idle

NextValidate ==
    \/ \E pd \in Definitions : \E value \in Values : Validate(pd, value)
    \/ Return

SpecValidate == InitValidate /\ [][NextValidate]_vars

\* the value is of the type the definition's tag names: an integer that is
\* no boolean for int, a number for float, a member of the choices for
\* choice
MatchesTypeTag(pd, value) ==
    CASE pd.type = "int" -> value.t = "int"
      [] pd.type = "float" -> value.t \in {"int", "float", "bool"}
      [] pd.type = "bool" -> value.t = "bool"
      [] pd.type = "str" -> value.t = "str"
      [] pd.type = "choice" -> value \in pd.choices
      [] OTHER -> FALSE

\* C25: validate accepts no value whose type does not match the type tag of
\* the definition (an int definition accepts integers only, not booleans; a
\* choice definition members of its choices only), and every definition
\* rejects some value
C25_ValidateRejectsOtherTypes ==
    last.op = "validate" =>
        /\ last.result.ok => MatchesTypeTag(last.pd, last.value)
        /\ \E value \in Values : ~validate(last.pd, value).ok

\* validate accepts no value of another type than int or bool for int, a
\* number or bool for float, bool for bool, str for str, and accepts members
\* only for a choice definition that lists choices
C25_ValidateByIsinstance ==
    (last.op = "validate" /\ last.result.ok) =>
        CASE last.pd.type = "int" -> last.value.t \in {"int", "bool"}
          [] last.pd.type = "float" -> last.value.t \in {"int", "float", "bool"}
          [] last.pd.type = "bool" -> last.value.t = "bool"
          [] last.pd.type = "str" -> last.value.t = "str"
          [] last.pd.type = "choice" ->
               last.pd.choices # {} => last.value \in last.pd.choices
          [] OTHER -> FALSE

\* ------------------------------------------------------------------------
\* The signal columns of Market Cipher B
\* ------------------------------------------------------------------------
\* a number as a fraction of tenths: a rolling mean is its sum over its count
Numerator(x) == IF "sum_x" \in DOMAIN x THEN x.sum_x ELSE Num(x)

Denominator(x) == IF "sum_x" \in DOMAIN x THEN x.nobs ELSE 1

\* a < b, a <= b, a > b, a >= b on float values: False when either is NaN
FloatLt(a, b) ==
    /\ ~IsNaN(a) /\ ~IsNaN(b)
    /\ Numerator(a) * Denominator(b) < Numerator(b) * Denominator(a)

FloatLe(a, b) ==
    /\ ~IsNaN(a) /\ ~IsNaN(b)
    /\ Numerator(a) * Denominator(b) <= Numerator(b) * Denominator(a)

FloatGt(a, b) == FloatLt(b, a)

FloatGe(a, b) == FloatLe(b, a)

\* a shift that leaves the series where it is
shift_none(series) == series

\* series.shift(1): every value one row later, NaN in the first row
shift(series) == [i \in DOMAIN series |-> IF i = 1 THEN NaN ELSE series[i - 1]]

\* MarketCipherB.calculate from "Detect momentum dots" on, for the Wave
\* Trend line wt1: wt2 is _sma(wt1, 4), and the columns MCB_Buy and MCB_Sell
\* are the signals as integers times the thresholds
momentum_dots(inst, wt1) ==
    LET wt2 == rolling_mean(wt1, 4)
        oversold == ParamDefault(inst, "oversold")
        overbought == ParamDefault(inst, "overbought")
        cross_up == [i \in DOMAIN wt1 |->
                        FloatGt(wt1[i], wt2[i]) /\ FloatLe(shift(wt1)[i], shift(wt2)[i])]
        cross_down == [i \in DOMAIN wt1 |->
                          FloatLt(wt1[i], wt2[i]) /\ FloatGe(shift(wt1)[i], shift(wt2)[i])]
        buy_signal == [i \in DOMAIN wt1 |-> cross_up[i] /\ FloatLt(wt2[i], oversold)]
        sell_signal == [i \in DOMAIN wt1 |-> cross_down[i] /\ FloatGt(wt2[i], overbought)]
    IN  [MCB_WT1 |-> wt1, MCB_WT2 |-> wt2,
         MCB_Buy |-> [i \in DOMAIN wt1 |->
                         IntV((IF buy_signal[i] THEN 1 ELSE 0) * oversold.v)],
         MCB_Sell |-> [i \in DOMAIN wt1 |->
                          IntV((IF sell_signal[i] THEN 1 ELSE 0) * overbought.v)]]

\* values of the Wave Trend line, in tenths: beyond the default thresholds
\* of -53 and 53 on either side
WaveValues == {FloatV(-900), FloatV(-600), FloatV(600), FloatV(900)}

\* the Wave Trend lines of at most MaxWave rows
WaveTrends == UNION {[1..n -> WaveValues] : n \in 1..MaxWave}

\* thresholds a caller sets: the widest the definitions allow
Thresholds ==
    {<< [name |-> "oversold", value |-> IntV(-70)] >>,
     << [name |-> "overbought", value |-> IntV(70)] >>}

InitSignals ==
    /\ NoRegistry
    /\ indicator = NewInstance("MarketCipherB")
    /\ NewDataManager
    /\ requests = NoRequests
    /\ last = Idle

\* the signal columns of indicator.calculate(df) for a frame whose Wave
\* Trend line is wt1
MomentumDots(wt1) ==
    /\ last = Idle
    /\ last' = [op |-> "momentum_dots", wt1 |-> wt1,
                oversold |-> ParamDefault(indicator, "oversold"),
                overbought |-> ParamDefault(indicator, "overbought"),
                result |-> momentum_dots(indicator, wt1)]
    /\ UNCHANGED << registry, indicator, data, requests >>

NextSignals ==
    \/ \E params \in Thresholds : SetParameters(params)
    \/ last = Idle /\ \E wt1 \in WaveTrends : MomentumDots(wt1)
    \/ Return

SpecSignals == InitSignals /\ [][NextSignals]_vars

\* at row i of the columns returned WT1 is above WT2 and was at or below it
\* on the row before
CrossedUp(i) ==
    /\ i > 1
    /\ FloatGt(last.result.MCB_WT1[i], last.result.MCB_WT2[i])
    /\ FloatLe(last.result.MCB_WT1[i - 1], last.result.MCB_WT2[i - 1])

\* at row i WT1 is below WT2 and was at or above it on the row before
CrossedDown(i) ==
    /\ i > 1
    /\ FloatLt(last.result.MCB_WT1[i], last.result.MCB_WT2[i])
    /\ FloatGe(last.result.MCB_WT1[i - 1], last.result.MCB_WT2[i - 1])

\* C26: MCB_Buy is the oversold threshold at the rows where WT1 crossed
\* above WT2 while WT2 is below the oversold threshold, and zero at every
\* other row; MCB_Sell is the overbought threshold at the rows where WT1
\* crossed below WT2 while WT2 is above the overbought threshold, and zero
\* at every other row
C26_SignalsAtCrossovers ==
    last.op = "momentum_dots" =>
        \A i \in DOMAIN last.wt1 :
            /\ last.result.MCB_Buy[i] =
                   IF CrossedUp(i) /\ FloatLt(last.result.MCB_WT2[i], last.oversold)
                       THEN last.oversold ELSE IntV(0)
            /\ last.result.MCB_Sell[i] =
                   IF CrossedDown(i) /\ FloatGt(last.result.MCB_WT2[i], last.overbought)
                       THEN last.overbought ELSE IntV(0)

\* a series with a buy row: WT1 crossed above WT2 under the threshold
C26_Witness ==
    /\ last.op = "momentum_dots"
    /\ \E i \in DOMAIN last.wt1 :
           /\ CrossedUp(i)
           /\ last.result.MCB_Buy[i] = last.oversold
           /\ last.result.MCB_Sell[i] = IntV(0)

\* a series with a sell row, under a threshold the caller set
C26_WitnessSell ==
    /\ last.op = "momentum_dots"
    /\ last.overbought = IntV(70)
    /\ \E i \in DOMAIN last.wt1 : last.result.MCB_Sell[i] = last.overbought

\* ------------------------------------------------------------------------
\* Chart requests side by side: two callers of create_candlestick_chart on
\* the one engine and registry of the session, each stepping through the
\* loop of _add_indicators statement by statement
\* ------------------------------------------------------------------------
\* the lists the two requests select: the moving average, the oscillator,
\* both in either order, or nothing
InterleavedLists ==
    LET ema == getattr("ExponentialMovingAverage", "name")
        rsi == getattr("RelativeStrengthIndex", "name")
    IN  {<< >>, << ema >>, << rsi >>, << ema, rsi >>, << rsi, ema >>}

\* the period a request overrides with: each request has its own
OverrideOf(r) ==
    << [name |-> "period", value |-> IF r = "first" THEN IntV(5) ELSE IntV(6)] >>

\* the indicator_params a request for these indicators may carry
InterleavedParams(r, indicators) ==
    {[n \in names |-> OverrideOf(r)] :
        names \in SUBSET {indicators[i] : i \in DOMAIN indicators}}

\* a copy of the registered instance that the request would own
get_plugin_copy(reg, plugin_name) ==
    [plugin_name |-> plugin_name, own |-> reg.plugin_instances[plugin_name]]

\* what get_plugin hands a request: the object stored under the name in
\* plugin_instances itself, so the request holds no instance of its own
get_plugin_object(reg, plugin_name) ==
    [plugin_name |-> plugin_name, own |-> NoneV]

\* the instance behind what a request holds, as it is now
instance_of(reg, held) ==
    IF held.own = NoneV THEN reg.plugin_instances[held.plugin_name] ELSE held.own

\* create_candlestick_chart up to the loop of _add_indicators
StartRequest(r, indicators, indicator_params) ==
    /\ requests[r].pc = "idle"
    /\ requests' = [requests EXCEPT ![r] =
           [pc |-> IF indicators = << >> THEN "return" ELSE "get_plugin",
            indicators |-> indicators, params |-> indicator_params, k |-> 1,
            indicator |-> NoneV, df |-> read_sql_query(ohlc_data, "AAPL"),
            computed |-> << >>, raised |-> "None"]]
    /\ UNCHANGED << registry, indicator, data, last >>

\* indicator = self.plugin_manager.get_plugin(indicator_name)
GetPluginStep(r) ==
    /\ requests[r].pc = "get_plugin"
    /\ LET req == requests[r]
           indicator_name == req.indicators[req.k]
       IN  requests' = [requests EXCEPT ![r] =
               IF get_plugin(Reg, indicator_name) = NoneV
                   THEN [req EXCEPT !.pc = "return", !.raised = "KeyError"]
               ELSE [req EXCEPT !.indicator = get_plugin_object(Reg, indicator_name),
                                !.pc = IF indicator_name \in DOMAIN req.params
                                           THEN "set_parameters" ELSE "calculate"]]
    /\ UNCHANGED << registry, indicator, data, last >>

\* is_valid, errors = indicator.set_parameters(params[indicator_name])
SetParametersStep(r) ==
    /\ requests[r].pc = "set_parameters"
    /\ LET req == requests[r]
           indicator_name == req.indicators[req.k]
       IN  \E s \in {set_parameters(instance_of(Reg, req.indicator),
                                    req.params[indicator_name])} :
               /\ IF req.indicator.own = NoneV
                      THEN /\ plugin_instances' = Put(plugin_instances, indicator_name, s.inst)
                           /\ requests' = [requests EXCEPT ![r] =
                                  IF s.ok THEN [req EXCEPT !.pc = "calculate"]
                                  ELSE [req EXCEPT !.pc = "return", !.raised = "ValueError"]]
                      ELSE /\ plugin_instances' = plugin_instances
                           /\ requests' = [requests EXCEPT ![r] =
                                  IF s.ok THEN [req EXCEPT !.pc = "calculate",
                                                           !.indicator.own = s.inst]
                                  ELSE [req EXCEPT !.pc = "return", !.raised = "ValueError"]]
    /\ UNCHANGED << plugin_files, loaded_plugins, plugin_metadata, plugin_module_map,
                    indicator, data, last >>

\* df_with_indicators = indicator.calculate(df_with_indicators)
CalculateStep(r) ==
    /\ requests[r].pc = "calculate"
    /\ LET req == requests[r]
           inst == instance_of(Reg, req.indicator)
       IN  \E c \in {calculate(inst, req.df)} :
               requests' = [requests EXCEPT ![r] =
                   IF c.raised # "None"
                       THEN [req EXCEPT !.pc = "return", !.raised = "ValueError"]
                   ELSE [req EXCEPT !.df = c.value,
                                    !.computed = Append(@,
                                        [indicator |-> req.indicators[req.k],
                                         parameters |-> get_parameters(inst)]),
                                    !.k = @ + 1,
                                    !.pc = IF req.k = Len(req.indicators)
                                               THEN "return" ELSE "get_plugin"]]
    /\ UNCHANGED << registry, indicator, data, last >>

\* the request returns its figure or its error to the page
ReturnStep(r) ==
    /\ requests[r].pc = "return"
    /\ requests' = [requests EXCEPT ![r] = NoRequest]
    /\ UNCHANGED << registry, indicator, data, last >>

NextInterleaved ==
    \/ \E r \in Requests, indicators \in InterleavedLists :
           \E indicator_params \in InterleavedParams(r, indicators) :
               StartRequest(r, indicators, indicator_params)
    \/ \E r \in Requests : GetPluginStep(r)
    \/ \E r \in Requests : SetParametersStep(r)
    \/ \E r \in Requests : CalculateStep(r)
    \/ \E r \in Requests : ReturnStep(r)

SpecInterleaved == InitLayout /\ [][NextInterleaved]_vars

\* a request is somewhere in its run or idle
RequestsTyped ==
    \A r \in Requests :
        requests[r].pc \in {"idle", "get_plugin", "set_parameters", "calculate", "return"}

\* the name a request is at in its list
CurrentName(r) == requests[r].indicators[requests[r].k]

\* C27: the registry hands every request the one instance it stores under
\* a name, so whenever a request's override is accepted while the other
\* request holds the same name and is about to calculate, that other
\* request calculates with the override: there is no per-request copy of
\* the parameter values
C27_OverridesReachTheOtherRequest ==
    [][\A r \in Requests, q \in Requests :
           (/\ r # q
            /\ requests[r].pc = "set_parameters"
            /\ requests'[r].pc = "calculate"
            /\ requests[q].pc = "calculate"
            /\ CurrentName(q) = CurrentName(r))
           => /\ requests'[q] = requests[q]
              /\ get_parameters(instance_of(Reg', requests'[q].indicator))["period"]
                     = OverrideOf(r)[1].value]_vars

\* a request that overrides the period of an indicator has calculated it
\* with the period the other request overrides with
C27_Witness ==
    \E r \in Requests, q \in Requests :
        /\ r # q
        /\ requests[q].pc # "idle"
        /\ \E i \in DOMAIN requests[q].computed :
               /\ requests[q].computed[i].indicator \in DOMAIN requests[q].params
               /\ requests[q].computed[i].parameters["period"] = OverrideOf(r)[1].value

\* ------------------------------------------------------------------------
\* Properties of the current parameter values
\* ------------------------------------------------------------------------
\* the value satisfies the definition: its type matches the tag and it
\* lies within the bounds the definition gives
SatisfiesDefinition(pd, value) ==
    /\ MatchesTypeTag(pd, value)
    /\ (pd.type \in {"int", "float"} /\ pd.min_value # NoneV /\ pd.max_value # NoneV)
           => InClosedInterval(pd, value)

\* C28: whatever was set on a built-in indicator, the current value of each
\* of its parameters satisfies the parameter's own definition
C28_CurrentValuesSatisfyDefinitions ==
    indicator.cls \in BuiltinClasses =>
        \A i \in DOMAIN indicator.parameters :
            SatisfiesDefinition(indicator.parameters[i], indicator.parameters[i].default)

\* the current value of every parameter is one that validate accepts
C28_CurrentValuesPassValidate ==
    \A i \in DOMAIN indicator.parameters :
        validate(indicator.parameters[i], indicator.parameters[i].default).ok

\* ------------------------------------------------------------------------
\* Properties of a chart request that aborts in _add_indicators
\* ------------------------------------------------------------------------
\* the request just returned left _add_indicators at an exception
AbortedInIndicators(l) == l.op = "create_candlestick_chart" /\ l.about # ""

\* the position it aborted at: the one after the indicators it calculated
AbortedAt(l) == Len(l.calculated) + 1

\* the selected names before position k
SelectedBefore(l, k) == {l.indicators[j] : j \in 1..(k - 1)}

\* the overrides of the batch are the current values of the instance
HoldsOverrides(inst, params) ==
    \A i \in DOMAIN params : get_parameters(inst)[params[i].name] = params[i].value

\* C29: a request that aborts at the k-th indicator of its list leaves the
\* parameter values of the k-th and of every later indicator as they were
\* (those not selected before the k-th as well), and the overrides it
\* applied to the indicators before the k-th are the current values of the
\* shared instances after the abort
C29_AbortLeavesTheRestUnchanged ==
    [][AbortedInIndicators(last') =>
           LET k == AbortedAt(last')
           IN  /\ \A j \in k..Len(last'.indicators) :
                      LET n == last'.indicators[j]
                      IN  (n \in DOMAIN plugin_instances /\ n \notin SelectedBefore(last', k))
                              => plugin_instances'[n] = plugin_instances[n]
               /\ \A n \in SelectedBefore(last', k) \cap DOMAIN last'.indicator_params :
                      HoldsOverrides(plugin_instances'[n], last'.indicator_params[n])]_vars

\* what holds of every abort: the indicators after the k-th keep their
\* values, the k-th keeps them unless the abort is a failure of its
\* calculate, and the overrides applied before the k-th stay
C29_AbortLeavesTheLaterUnchanged ==
    [][AbortedInIndicators(last') =>
           LET k == AbortedAt(last')
               failed == last'.indicators[k]
               calculate_failed ==
                   /\ failed \in DOMAIN plugin_instances
                   /\ failed \in DOMAIN last'.indicator_params
                       => validate_parameters(plugin_instances[failed].parameters,
                                              last'.indicator_params[failed]).ok
           IN  /\ \A j \in k..Len(last'.indicators) :
                      LET n == last'.indicators[j]
                      IN  (/\ n \in DOMAIN plugin_instances
                           /\ n \notin SelectedBefore(last', k)
                           /\ ~(calculate_failed /\ n = failed))
                              => plugin_instances'[n] = plugin_instances[n]
               /\ (calculate_failed /\ failed \in DOMAIN last'.indicator_params)
                      => HoldsOverrides(plugin_instances'[failed],
                                        last'.indicator_params[failed])
               /\ \A n \in SelectedBefore(last', k) \cap DOMAIN last'.indicator_params :
                      HoldsOverrides(plugin_instances'[n], last'.indicator_params[n])]_vars

\* ------------------------------------------------------------------------
\* Properties of one load_plugin call
\* ------------------------------------------------------------------------
\* the classes a module's file defines that pass _validate_plugin
ValidClassesOf(module_name) ==
    LET attrs == plugin_files[module_name].attrs
    IN  {attrs[i].cls : i \in {j \in DOMAIN attrs :
                                  ~attrs[j].imported /\ _validate_plugin(attrs[j].cls).success}}

\* the classes of the module that the tables hold under their display name
\* as registered from it
RegisteredOf(reg, module_name) ==
    {c \in ValidClassesOf(module_name) :
        /\ getattr(c, "name") \in DOMAIN reg.loaded_plugins
        /\ reg.loaded_plugins[getattr(c, "name")] = c
        /\ reg.plugin_module_map[getattr(c, "name")] = module_name}

\* C30: load_plugin reports success exactly when it registered a class of
\* the module; after a reported failure no class of the module is
\* registered; and a class that fails does not keep the classes after it
\* from being examined, so every class of the module that can be
\* registered is
C30_SuccessIffRegistered ==
    [][last'.op = "load_plugin" =>
           LET m == last'.module_name
           IN  /\ last'.result.success <=> RegisteredOf(Reg', m) # {}
               /\ \A c \in ValidClassesOf(m) :
                      ~get_metadata_raises(c) => c \in RegisteredOf(Reg', m)]_vars

\* what holds of every load_plugin call: a reported success registered
\* a class of the module, and a call that found no valid class left the
\* tables as they were
C30_SuccessRegistered ==
    [][last'.op = "load_plugin" =>
           LET m == last'.module_name
           IN  /\ last'.result.success => RegisteredOf(Reg', m) # {}
               /\ ValidClassesOf(m) = {} => Reg' = Reg]_vars

====
